---- MODULE Spec2Model ----
(***************************************************************************)
(* Model of the peer identification protocol                              *)
(* (network/src/protocols/identify/mod.rs): the IdentifyProtocol state     *)
(* machine, its IdentifyCallback policy layer and the Identify payload.    *)
(* Handlers are operators from (instance, event) to (instance, effects);   *)
(* the specifications drive them from a model of the session transport.    *)
(***************************************************************************)
EXTENDS Integers, Sequences, FiniteSets, TLC

(***************************************************************************)
(* Program constants (mod.rs:24-30).                                       *)
(***************************************************************************)
MAX_RETURN_LISTEN_ADDRS == 10
BAN_ON_NOT_SAME_NET == 300
CHECK_TIMEOUT_INTERVAL == 1
DEFAULT_TIMEOUT == 8
MAX_ADDRS == 10

(***************************************************************************)
(* Bounds of the model.                                                    *)
(***************************************************************************)
\* The clock stops at MaxTime seconds.
MaxTime == 8
\* Session ids handed out by the transport: 1..MaxSessions.
MaxSessions == 2
\* The transport opens no session after MaxOpenTime seconds.
MaxOpenTime == 1

(***************************************************************************)
(* Option<T>: None is the empty sequence, Some(v) the one-element one.     *)
(***************************************************************************)
None == <<>>
Some(v) == <<v>>
is_some(o) == o /= <<>>
is_none(o) == o = <<>>
unwrap(o) == o[1]

(***************************************************************************)
(* Multiaddr: a sequence of Protocol components.                           *)
(***************************************************************************)
IP4(ip) == [proto |-> "ip4", val |-> ip]
DNS(host) == [proto |-> "dns4", val |-> host]
TCP(port) == [proto |-> "tcp", val |-> port]
P2P(id) == [proto |-> "p2p", val |-> id]

\* p2p::utils::multiaddr_to_socketaddr: the first IP component that is
\* followed by a TCP component, as a socket address; None when there is none.
multiaddr_to_socketaddr(addr) ==
    LET hits == {i \in 1..(Len(addr) - 1) :
                    addr[i].proto = "ip4" /\ addr[i + 1].proto = "tcp"}
    IN  IF hits = {} THEN None
        ELSE LET i == CHOOSE j \in hits : \A k \in hits : j <= k
             IN  Some([ip |-> addr[i].val, port |-> addr[i + 1].val])

\* p2p::utils::is_reachable: whether the ip is globally routable.
UnreachableIps == {"10.0.0.1", "127.0.0.1"}
is_reachable(ip) == ip \notin UnreachableIps

\* The filter closure of process_listens and connected.
reachable_filter(addr, global_ip_only) ==
    LET sa == multiaddr_to_socketaddr(addr)
    IN  IF is_some(sa)
        THEN (~global_ip_only) \/ is_reachable(unwrap(sa).ip)
        ELSE FALSE

\* Iterator::take(n).
take(seq, n) == IF Len(seq) <= n THEN seq ELSE SubSeq(seq, 1, n)

(***************************************************************************)
(* Misbehavior, MisbehaveResult and the effects a handler has on its       *)
(* collaborators (transport, peer registry, peer store).                   *)
(***************************************************************************)
Misbehavior(kind, n) == [kind |-> kind, n |-> n]
DuplicateListenAddrs == Misbehavior("DuplicateListenAddrs", 0)
DuplicateObservedAddr == Misbehavior("DuplicateObservedAddr", 0)
Timeout == Misbehavior("Timeout", 0)
InvalidData == Misbehavior("InvalidData", 0)
TooManyAddresses(n) == Misbehavior("TooManyAddresses", n)

Continue == "Continue"
Disconnect == "Disconnect"
is_disconnect(r) == r = Disconnect

\* One call out of the protocol: op names the collaborator's method, who the
\* session id or peer id it is about.
Eff(op, who, arg) == [op |-> op, who |-> who, arg |-> arg]

\* PeerId::from_public_key.
from_public_key(key) == <<"peer", key>>

(***************************************************************************)
(* Flags and the Identify payload (mod.rs:517-595).                        *)
(***************************************************************************)
FullNode == 1

RECURSIVE BitAnd(_, _)
\* u64 `&`.
BitAnd(a, b) ==
    IF a = 0 \/ b = 0 THEN 0
    ELSE (a % 2) * (b % 2) + 2 * BitAnd(a \div 2, b \div 2)

\* Flags::contains(self, flags).
contains(self, flags) == BitAnd(self, flags) = flags

\* Bytes as the payload reader sees them: fmt tells whether they have the
\* structure of a packed Identify; a field that is not UTF-8 is InvalidUtf8.
EmptyBytes == [fmt |-> "empty", name |-> "", flag |-> 0, client_version |-> ""]
InvalidUtf8 == "<invalid-utf8>"
as_utf8(field) == IF field = InvalidUtf8 THEN None ELSE Some(field)

\* Identify::new.
Identify_new(name, flags, client_version) ==
    [name |-> name, client_version |-> client_version, flags |-> flags,
     encode_data |-> EmptyBytes]

\* Identify::encode: fills the cache on first use and returns it.
Identify_encode(self) ==
    LET data == IF self.encode_data = EmptyBytes
                THEN [fmt |-> "Identify", name |-> self.name,
                      flag |-> self.flags,
                      client_version |-> self.client_version]
                ELSE self.encode_data
    IN  [self |-> [self EXCEPT !.encode_data = data], bytes |-> data]

\* Mutant of Identify_verify: the name is not compared.
Identify_verify_any_name(self, data) ==
    IF data.fmt /= "Identify" THEN None
    ELSE IF is_none(as_utf8(data.name)) THEN None
    ELSE IF data.flag = 0 THEN None
    ELSE IF is_none(as_utf8(data.client_version)) THEN None
    ELSE Some([flags |-> data.flag, client_version |-> data.client_version])

\* Mutant of Identify_verify: a flag field of 0 is let through.
Identify_verify_zero_flag(self, data) ==
    IF data.fmt /= "Identify" THEN None
    ELSE IF is_none(as_utf8(data.name)) THEN None
    ELSE IF self.name /= unwrap(as_utf8(data.name)) THEN None
    ELSE IF is_none(as_utf8(data.client_version)) THEN None
    ELSE Some([flags |-> data.flag, client_version |-> data.client_version])

\* Identify::verify.
Identify_verify(self, data) ==
    IF data.fmt /= "Identify" THEN None
    ELSE IF is_none(as_utf8(data.name)) THEN None
    ELSE IF self.name /= unwrap(as_utf8(data.name)) THEN None
    ELSE IF data.flag = 0 THEN None
    ELSE IF is_none(as_utf8(data.client_version)) THEN None
    ELSE Some([flags |-> data.flag, client_version |-> data.client_version])

(***************************************************************************)
(* NetworkState, the collaborator behind IdentifyCallback: a record        *)
(*   public_addrs : sequence of <<addr, score>> pairs,                     *)
(*   protocol_ids : the local protocol ids,                                *)
(*   peers        : session id -> peer id, the peer registry,              *)
(*   feelers      : the peer ids the registry marks as feelers.            *)
(***************************************************************************)
FEELER_PROTOCOL_ID == "feeler"

\* NetworkState::public_addrs(count).
public_addrs(ns, count) == take(ns.public_addrs, count)

\* NetworkState::get_protocol_ids(filter), with the filter of mod.rs:426.
get_protocol_ids_except_feeler(ns) ==
    {id \in ns.protocol_ids : id /= FEELER_PROTOCOL_ID}

\* PeerRegistry::is_feeler.
is_feeler(ns, peer_id) == peer_id \in ns.feelers

\* PeerRegistry::get_peer_mut(session_id) finds a peer.
has_peer(ns, session_id) == session_id \in DOMAIN ns.peers

\* PeerRegistry::get_key_by_peer_id.
get_key_by_peer_id(ns, peer_id) ==
    LET keys == {s \in DOMAIN ns.peers : ns.peers[s] = peer_id}
    IN  IF keys = {} THEN None ELSE Some(CHOOSE s \in keys : TRUE)

RECURSIVE InsertByScore(_, _)
\* Places pair p after every pair of the sorted seq whose score is <= its own.
InsertByScore(seq, p) ==
    IF seq = <<>> THEN <<p>>
    ELSE IF seq[1][2] <= p[2] THEN <<seq[1]>> \o InsertByScore(Tail(seq), p)
    ELSE <<p>> \o seq

RECURSIVE sort_by_score(_)
\* addrs.sort_by(|a, b| a.1.cmp(&b.1)): a stable sort, ascending score.
sort_by_score(seq) ==
    IF seq = <<>> THEN <<>>
    ELSE InsertByScore(sort_by_score(SubSeq(seq, 1, Len(seq) - 1)), seq[Len(seq)])

(***************************************************************************)
(* IdentifyCallback (mod.rs:343-515): [network_state, identify, policy].   *)
(* policy is what this Callback's misbehave answers: IdentifyCallback      *)
(* answers Disconnect; the Callback trait allows Continue as well.         *)
(***************************************************************************)
IdentifyCallback_new(network_state, name, client_version, policy) ==
    [network_state |-> network_state,
     identify |-> Identify_new(name, FullNode, client_version),
     policy |-> policy]

\* IdentifyCallback::listen_addrs.
listen_addrs(cb) ==
    LET addrs == take(sort_by_score(
                     public_addrs(cb.network_state, MAX_RETURN_LISTEN_ADDRS * 2)),
                      MAX_RETURN_LISTEN_ADDRS)
    IN  [i \in 1..Len(addrs) |-> addrs[i][1]]

\* Callback::local_listen_addrs.
local_listen_addrs(cb) == listen_addrs(cb)

\* Callback::misbehave: the report, and the policy's answer.
misbehave(cb, peer_id, kind) ==
    [result |-> cb.policy, out |-> <<Eff("misbehave", peer_id, kind)>>]

\* The closure registry_client_version of received_identify.
registry_client_version(cb, ctx, version) ==
    IF has_peer(cb.network_state, ctx.id)
    THEN <<Eff("identify_info", ctx.id, version)>>
    ELSE <<>>

\* Mutant of received_identify: a feeler peer is treated like any other peer.
received_identify_no_feeler(cb, ctx, identify) ==
    LET called == <<Eff("received_identify", ctx.id, identify)>>
        v == Identify_verify(cb.identify, identify)
    IN  IF is_none(v)
        THEN [result |-> Disconnect,
              out |-> called \o <<Eff("ban_session", ctx.id, BAN_ON_NOT_SAME_NET)>>]
        ELSE IF ctx.ty = "Outbound"
        THEN IF contains(unwrap(v).flags, cb.identify.flags)
             THEN [result |-> Continue,
                   out |-> called
                           \o registry_client_version(cb, ctx, unwrap(v).client_version)
                           \o <<Eff("open_protocols", ctx.id,
                                    get_protocol_ids_except_feeler(cb.network_state))>>]
             ELSE [result |-> Disconnect, out |-> called]
        ELSE [result |-> Continue,
              out |-> called
                      \o registry_client_version(cb, ctx, unwrap(v).client_version)]

\* Mutant of received_identify: the remote flags are not checked.
received_identify_any_flags(cb, ctx, identify) ==
    LET called == <<Eff("received_identify", ctx.id, identify)>>
        v == Identify_verify(cb.identify, identify)
    IN  IF is_none(v)
        THEN [result |-> Disconnect,
              out |-> called \o <<Eff("ban_session", ctx.id, BAN_ON_NOT_SAME_NET)>>]
        ELSE IF ctx.ty = "Outbound"
        THEN IF is_feeler(cb.network_state, from_public_key(unwrap(ctx.remote_pubkey)))
             THEN [result |-> Continue,
                   out |-> called
                           \o <<Eff("open_protocols", ctx.id, {FEELER_PROTOCOL_ID})>>]
             ELSE [result |-> Continue,
                   out |-> called
                           \o registry_client_version(cb, ctx, unwrap(v).client_version)
                           \o <<Eff("open_protocols", ctx.id,
                                    get_protocol_ids_except_feeler(cb.network_state))>>]
        ELSE [result |-> Continue,
              out |-> called
                      \o registry_client_version(cb, ctx, unwrap(v).client_version)]

\* Callback::received_identify for IdentifyCallback.
received_identify(cb, ctx, identify) ==
    LET called == <<Eff("received_identify", ctx.id, identify)>>
        v == Identify_verify(cb.identify, identify)
    IN  IF is_none(v)
        THEN [result |-> Disconnect,
              out |-> called \o <<Eff("ban_session", ctx.id, BAN_ON_NOT_SAME_NET)>>]
        ELSE IF ctx.ty = "Outbound"
        THEN IF is_feeler(cb.network_state, from_public_key(unwrap(ctx.remote_pubkey)))
             THEN [result |-> Continue,
                   out |-> called
                           \o <<Eff("open_protocols", ctx.id, {FEELER_PROTOCOL_ID})>>]
             ELSE IF contains(unwrap(v).flags, cb.identify.flags)
             THEN [result |-> Continue,
                   out |-> called
                           \o registry_client_version(cb, ctx, unwrap(v).client_version)
                           \o <<Eff("open_protocols", ctx.id,
                                    get_protocol_ids_except_feeler(cb.network_state))>>]
             ELSE [result |-> Disconnect, out |-> called]
        ELSE [result |-> Continue,
              out |-> called
                      \o registry_client_version(cb, ctx, unwrap(v).client_version)]

\* Callback::add_remote_listen_addrs: the peer record's listened_addrs is
\* replaced, then every address goes to the peer store.
add_remote_listen_addrs(cb, peer_id, addrs) ==
    LET key == get_key_by_peer_id(cb.network_state, peer_id)
    IN  <<Eff("add_remote_listen_addrs", peer_id, addrs)>>
        \o (IF is_some(key) /\ has_peer(cb.network_state, unwrap(key))
            THEN <<Eff("listened_addrs", unwrap(key), addrs)>>
            ELSE <<>>)
        \o [i \in 1..Len(addrs) |-> Eff("add_addr", peer_id, addrs[i])]

\* The inner closure of add_observed_addr: addr with every P2P component
\* dropped and every TCP component replaced by TCP(port).
with_port(addr, port) ==
    LET kept == SelectSeq(addr, LAMBDA c : c.proto /= "p2p")
    IN  [i \in 1..Len(kept) |->
            IF kept[i].proto = "tcp" THEN TCP(port) ELSE kept[i]]

\* Mutant of add_observed_addr: an inbound peer's observation is refused.
add_observed_addr_refuses(cb, peer_id, addr, ty) ==
    [result |-> Disconnect, out |-> <<Eff("add_observed_addr", peer_id, addr)>>]

\* Callback::add_observed_addr.
add_observed_addr(cb, peer_id, addr, ty) ==
    LET called == <<Eff("add_observed_addr", peer_id, addr)>>
        sa == multiaddr_to_socketaddr(addr)
    IN  IF ty = "Inbound" THEN [result |-> Continue, out |-> called]
        ELSE IF ~(IF is_some(sa) THEN is_reachable(unwrap(sa).ip) ELSE FALSE)
        THEN [result |-> Continue, out |-> called]
        ELSE LET socks == SelectSeq(
                     [i \in 1..Len(listen_addrs(cb)) |->
                         multiaddr_to_socketaddr(listen_addrs(cb)[i])],
                     LAMBDA s : is_some(s))
                 observed_addrs == [i \in 1..Len(socks) |->
                                       with_port(addr, unwrap(socks[i]).port)]
             IN  [result |-> Continue,
                  out |-> called
                          \o <<Eff("add_observed_addrs", peer_id, observed_addrs)>>]

(***************************************************************************)
(* IdentifyMessage, the wire envelope (mod protocol): fmt tells whether    *)
(* the bytes have the structure of an envelope.                            *)
(***************************************************************************)
IdentifyMessage_new(listens, observed, identify) ==
    [listen_addrs |-> listens, observed_addr |-> observed, identify |-> identify]

IdentifyMessage_encode(message) ==
    [fmt |-> "IdentifyMessage", listen_addrs |-> message.listen_addrs,
     observed_addr |-> message.observed_addr, identify |-> message.identify]

IdentifyMessage_decode(data) ==
    IF data.fmt = "IdentifyMessage"
    THEN Some(IdentifyMessage_new(data.listen_addrs, data.observed_addr,
                                  data.identify))
    ELSE None

(***************************************************************************)
(* IdentifyProtocol (mod.rs:88-341): the record                            *)
(*   [callback, remote_infos, secio_enabled, global_ip_only],              *)
(* remote_infos a function from the session ids it holds to RemoteInfo.    *)
(* A handler yields the instance after it, its effects in call order, and  *)
(* whether one of its expect() calls panicked.                             *)
(***************************************************************************)
IdentifyProtocol_new(callback) ==
    [callback |-> callback, remote_infos |-> <<>>, secio_enabled |-> TRUE,
     global_ip_only |-> TRUE]

\* HashMap::insert / HashMap::remove on remote_infos.
insert(map, k, v) == [x \in (DOMAIN map) \cup {k} |-> IF x = k THEN v ELSE map[x]]
remove(map, k) == [x \in (DOMAIN map) \ {k} |-> map[x]]

\* RemoteInfo::new; now is Instant::now().
RemoteInfo_new(session, timeout, now) ==
    [peer_id |-> from_public_key(unwrap(session.remote_pubkey)),
     session |-> session, connected_at |-> now, timeout |-> timeout,
     listen_addrs |-> None, observed_addr |-> None]

\* Mutant of process_listens: the length of the list is not checked.
process_listens_no_limit(self, ctx, listens) ==
    IF ctx.id \notin DOMAIN self.remote_infos
    THEN [self |-> self, result |-> Continue, out |-> <<>>, panic |-> TRUE]
    ELSE
    LET info == self.remote_infos[ctx.id]
    IN  IF is_some(info.listen_addrs)
        THEN LET r == misbehave(self.callback, info.peer_id, DuplicateListenAddrs)
             IN  [self |-> self, result |-> r.result, out |-> r.out, panic |-> FALSE]
        ELSE LET reachable_addrs ==
                     SelectSeq(listens,
                               LAMBDA a : reachable_filter(a, self.global_ip_only))
             IN  [self |-> [self EXCEPT !.remote_infos[ctx.id].listen_addrs =
                                            Some(reachable_addrs)],
                  result |-> Continue,
                  out |-> add_remote_listen_addrs(self.callback, info.peer_id,
                                                  reachable_addrs),
                  panic |-> FALSE]

\* Mutant of process_listens: a repeated list replaces the stored one.
process_listens_overwrite(self, ctx, listens) ==
    IF ctx.id \notin DOMAIN self.remote_infos
    THEN [self |-> self, result |-> Continue, out |-> <<>>, panic |-> TRUE]
    ELSE
    LET info == self.remote_infos[ctx.id]
    IN  IF Len(listens) > MAX_ADDRS
        THEN LET r == misbehave(self.callback, info.peer_id,
                                TooManyAddresses(Len(listens)))
             IN  [self |-> self, result |-> r.result, out |-> r.out, panic |-> FALSE]
        ELSE LET reachable_addrs ==
                     SelectSeq(listens,
                               LAMBDA a : reachable_filter(a, self.global_ip_only))
             IN  [self |-> [self EXCEPT !.remote_infos[ctx.id].listen_addrs =
                                            Some(reachable_addrs)],
                  result |-> Continue,
                  out |-> add_remote_listen_addrs(self.callback, info.peer_id,
                                                  reachable_addrs),
                  panic |-> FALSE]

\* Mutant of process_listens: the addresses are stored and forwarded unfiltered.
process_listens_no_filter(self, ctx, listens) ==
    IF ctx.id \notin DOMAIN self.remote_infos
    THEN [self |-> self, result |-> Continue, out |-> <<>>, panic |-> TRUE]
    ELSE
    LET info == self.remote_infos[ctx.id]
    IN  IF is_some(info.listen_addrs)
        THEN LET r == misbehave(self.callback, info.peer_id, DuplicateListenAddrs)
             IN  [self |-> self, result |-> r.result, out |-> r.out, panic |-> FALSE]
        ELSE IF Len(listens) > MAX_ADDRS
        THEN LET r == misbehave(self.callback, info.peer_id,
                                TooManyAddresses(Len(listens)))
             IN  [self |-> self, result |-> r.result, out |-> r.out, panic |-> FALSE]
        ELSE [self |-> [self EXCEPT !.remote_infos[ctx.id].listen_addrs =
                                        Some(listens)],
              result |-> Continue,
              out |-> add_remote_listen_addrs(self.callback, info.peer_id, listens),
              panic |-> FALSE]

\* IdentifyProtocol::process_listens.
process_listens(self, ctx, listens) ==
    IF ctx.id \notin DOMAIN self.remote_infos
    THEN [self |-> self, result |-> Continue, out |-> <<>>, panic |-> TRUE]
    ELSE
    LET info == self.remote_infos[ctx.id]
    IN  IF is_some(info.listen_addrs)
        THEN LET r == misbehave(self.callback, info.peer_id, DuplicateListenAddrs)
             IN  [self |-> self, result |-> r.result, out |-> r.out, panic |-> FALSE]
        ELSE IF Len(listens) > MAX_ADDRS
        THEN LET r == misbehave(self.callback, info.peer_id,
                                TooManyAddresses(Len(listens)))
             IN  [self |-> self, result |-> r.result, out |-> r.out, panic |-> FALSE]
        ELSE LET reachable_addrs ==
                     SelectSeq(listens,
                               LAMBDA a : reachable_filter(a, self.global_ip_only))
             IN  [self |-> [self EXCEPT !.remote_infos[ctx.id].listen_addrs =
                                            Some(reachable_addrs)],
                  result |-> Continue,
                  out |-> add_remote_listen_addrs(self.callback, info.peer_id,
                                                  reachable_addrs),
                  panic |-> FALSE]

\* Mutant of process_observed: the address is forwarded but not stored.
process_observed_unstored(self, ctx, observed) ==
    IF ctx.id \notin DOMAIN self.remote_infos
    THEN [self |-> self, result |-> Continue, out |-> <<>>, panic |-> TRUE]
    ELSE
    LET info == self.remote_infos[ctx.id]
        sa == multiaddr_to_socketaddr(observed)
        passes == IF is_some(sa)
                  THEN (~self.global_ip_only) \/ is_reachable(unwrap(sa).ip)
                  ELSE FALSE
        added == add_observed_addr(self.callback, info.peer_id, observed,
                                   info.session.ty)
    IN  IF is_some(info.observed_addr)
        THEN LET r == misbehave(self.callback, info.peer_id, DuplicateObservedAddr)
             IN  [self |-> self, result |-> r.result, out |-> r.out, panic |-> FALSE]
        ELSE [self |-> self,
              result |-> IF passes THEN added.result ELSE Continue,
              out |-> IF passes THEN added.out ELSE <<>>,
              panic |-> FALSE]

\* IdentifyProtocol::process_observed.
process_observed(self, ctx, observed) ==
    IF ctx.id \notin DOMAIN self.remote_infos
    THEN [self |-> self, result |-> Continue, out |-> <<>>, panic |-> TRUE]
    ELSE
    LET info == self.remote_infos[ctx.id]
        sa == multiaddr_to_socketaddr(observed)
        passes == IF is_some(sa)
                  THEN (~self.global_ip_only) \/ is_reachable(unwrap(sa).ip)
                  ELSE FALSE
        added == add_observed_addr(self.callback, info.peer_id, observed,
                                   info.session.ty)
    IN  IF is_some(info.observed_addr)
        THEN LET r == misbehave(self.callback, info.peer_id, DuplicateObservedAddr)
             IN  [self |-> self, result |-> r.result, out |-> r.out, panic |-> FALSE]
        ELSE IF passes /\ is_disconnect(added.result)
        THEN [self |-> self, result |-> Disconnect, out |-> added.out,
              panic |-> FALSE]
        ELSE [self |-> [self EXCEPT !.remote_infos[ctx.id].observed_addr =
                                        Some(observed)],
              result |-> Continue,
              out |-> IF passes THEN added.out ELSE <<>>,
              panic |-> FALSE]

\* Mutant of connected: a session without a public key is treated like any
\* other session.
connected_no_key_check(self, ctx, now) ==
    LET key == IF is_some(ctx.remote_pubkey) THEN ctx.remote_pubkey ELSE Some(0)
        remote_info == RemoteInfo_new([ctx EXCEPT !.remote_pubkey = key],
                                      DEFAULT_TIMEOUT, now)
        enc == Identify_encode(self.callback.identify)
    IN  [self |-> [self EXCEPT
                      !.remote_infos = insert(self.remote_infos, ctx.id, remote_info),
                      !.callback.identify = enc.self],
         out |-> <<Eff("identify", ctx.id, enc.bytes),
                   Eff("quick_send_message", ctx.id,
                       IdentifyMessage_encode(
                           IdentifyMessage_new(<<>>, ctx.address, enc.bytes)))>>,
         panic |-> FALSE]

\* ServiceProtocol::connected.
connected(self, ctx, now) ==
    IF is_none(ctx.remote_pubkey)
    THEN [self |-> [self EXCEPT !.secio_enabled = FALSE],
          out |-> <<Eff("disconnect", ctx.id, 0)>>,
          panic |-> FALSE]
    ELSE
    LET remote_info == RemoteInfo_new(ctx, DEFAULT_TIMEOUT, now)
        listens == take(SelectSeq(local_listen_addrs(self.callback),
                                  LAMBDA a : reachable_filter(a, self.global_ip_only)),
                        MAX_ADDRS)
        observed_addr == SelectSeq(ctx.address, LAMBDA c : c.proto /= "p2p")
        enc == Identify_encode(self.callback.identify)
        data == IdentifyMessage_encode(
                    IdentifyMessage_new(listens, observed_addr, enc.bytes))
    IN  [self |-> [self EXCEPT
                      !.remote_infos = insert(self.remote_infos, ctx.id, remote_info),
                      !.callback.identify = enc.self],
         out |-> <<Eff("local_listen_addrs", ctx.id, 0),
                   Eff("identify", ctx.id, enc.bytes),
                   Eff("quick_send_message", ctx.id, data)>>,
         panic |-> FALSE]

\* Mutant of disconnected: the entry is removed whatever secio_enabled is.
disconnected_unguarded(self, ctx) ==
    IF ctx.id \in DOMAIN self.remote_infos
    THEN [self |-> [self EXCEPT
                       !.remote_infos = remove(self.remote_infos, ctx.id)],
          out |-> <<>>, panic |-> FALSE]
    ELSE [self |-> self, out |-> <<>>, panic |-> TRUE]

\* ServiceProtocol::disconnected.
disconnected(self, ctx) ==
    IF self.secio_enabled
    THEN IF ctx.id \in DOMAIN self.remote_infos
         THEN [self |-> [self EXCEPT
                            !.remote_infos = remove(self.remote_infos, ctx.id)],
               out |-> <<>>, panic |-> FALSE]
         ELSE [self |-> self, out |-> <<>>, panic |-> TRUE]
    ELSE [self |-> self, out |-> <<>>, panic |-> FALSE]

\* Mutant of received: the three steps all run, and the session is closed
\* when any of them answered Disconnect.
received_every_step(self, ctx, data) ==
    IF ~self.secio_enabled
    THEN [self |-> self, out |-> <<>>, panic |-> FALSE]
    ELSE
    LET message == IdentifyMessage_decode(data)
    IN  IF is_some(message)
        THEN LET r1 == received_identify(self.callback, ctx, unwrap(message).identify)
                 r2 == process_listens(self, ctx, unwrap(message).listen_addrs)
                 r3 == process_observed(r2.self, ctx, unwrap(message).observed_addr)
                 o3 == r1.out \o <<Eff("process_listens", ctx.id, 0)>> \o r2.out
                       \o <<Eff("process_observed", ctx.id, 0)>> \o r3.out
             IN  IF r2.panic \/ r3.panic
                 THEN [self |-> self, out |-> o3, panic |-> TRUE]
                 ELSE [self |-> r3.self,
                       out |-> o3 \o (IF is_disconnect(r1.result)
                                         \/ is_disconnect(r2.result)
                                         \/ is_disconnect(r3.result)
                                      THEN <<Eff("disconnect", ctx.id, 0)>>
                                      ELSE <<>>),
                       panic |-> FALSE]
        ELSE IF ctx.id \notin DOMAIN self.remote_infos
        THEN [self |-> self, out |-> <<>>, panic |-> TRUE]
        ELSE LET info == self.remote_infos[ctx.id]
                 r == misbehave(self.callback, info.peer_id, InvalidData)
             IN  [self |-> self,
                  out |-> r.out \o (IF is_disconnect(r.result)
                                    THEN <<Eff("disconnect", ctx.id, 0)>>
                                    ELSE <<>>),
                  panic |-> FALSE]

\* Mutant of received: data that does not decode is not reported.
received_invalid_unreported(self, ctx, data) ==
    IF ~self.secio_enabled
    THEN [self |-> self, out |-> <<>>, panic |-> FALSE]
    ELSE
    LET message == IdentifyMessage_decode(data)
    IN  IF is_some(message)
        THEN LET r1 == received_identify(self.callback, ctx, unwrap(message).identify)
                 r2 == process_listens(self, ctx, unwrap(message).listen_addrs)
                 r3 == process_observed(r2.self, ctx, unwrap(message).observed_addr)
                 o1 == r1.out
                 o2 == o1 \o <<Eff("process_listens", ctx.id, 0)>> \o r2.out
                 o3 == o2 \o <<Eff("process_observed", ctx.id, 0)>> \o r3.out
                 bye == <<Eff("disconnect", ctx.id, 0)>>
             IN  IF is_disconnect(r1.result)
                 THEN [self |-> self, out |-> o1 \o bye, panic |-> FALSE]
                 ELSE IF r2.panic
                 THEN [self |-> self, out |-> o2, panic |-> TRUE]
                 ELSE IF is_disconnect(r2.result)
                 THEN [self |-> r2.self, out |-> o2 \o bye, panic |-> FALSE]
                 ELSE IF r3.panic
                 THEN [self |-> r2.self, out |-> o3, panic |-> TRUE]
                 ELSE IF is_disconnect(r3.result)
                 THEN [self |-> r3.self, out |-> o3 \o bye, panic |-> FALSE]
                 ELSE [self |-> r3.self, out |-> o3, panic |-> FALSE]
        ELSE IF ctx.id \notin DOMAIN self.remote_infos
        THEN [self |-> self, out |-> <<>>, panic |-> TRUE]
        ELSE LET info == self.remote_infos[ctx.id]
                 r == misbehave(self.callback, info.peer_id, InvalidData)
             IN  [self |-> self,
                  out |-> IF is_disconnect(r.result)
                          THEN <<Eff("disconnect", ctx.id, 0)>>
                          ELSE <<>>,
                  panic |-> FALSE]

\* Mutant of received: the duplicate check comes before received_identify.
received_duplicate_first(self, ctx, data) ==
    IF ~self.secio_enabled
    THEN [self |-> self, out |-> <<>>, panic |-> FALSE]
    ELSE
    LET message == IdentifyMessage_decode(data)
    IN  IF /\ is_some(message)
           /\ ctx.id \in DOMAIN self.remote_infos
           /\ is_some(self.remote_infos[ctx.id].listen_addrs)
        THEN LET r2 == process_listens(self, ctx, unwrap(message).listen_addrs)
             IN  [self |-> r2.self,
                  out |-> <<Eff("process_listens", ctx.id, 0)>> \o r2.out
                          \o (IF is_disconnect(r2.result)
                              THEN <<Eff("disconnect", ctx.id, 0)>>
                              ELSE <<>>),
                  panic |-> r2.panic]
        ELSE IF is_some(message)
        THEN LET r1 == received_identify(self.callback, ctx, unwrap(message).identify)
                 r2 == process_listens(self, ctx, unwrap(message).listen_addrs)
                 r3 == process_observed(r2.self, ctx, unwrap(message).observed_addr)
                 o1 == r1.out
                 o2 == o1 \o <<Eff("process_listens", ctx.id, 0)>> \o r2.out
                 o3 == o2 \o <<Eff("process_observed", ctx.id, 0)>> \o r3.out
                 bye == <<Eff("disconnect", ctx.id, 0)>>
             IN  IF is_disconnect(r1.result)
                 THEN [self |-> self, out |-> o1 \o bye, panic |-> FALSE]
                 ELSE IF r2.panic
                 THEN [self |-> self, out |-> o2, panic |-> TRUE]
                 ELSE IF is_disconnect(r2.result)
                 THEN [self |-> r2.self, out |-> o2 \o bye, panic |-> FALSE]
                 ELSE IF r3.panic
                 THEN [self |-> r2.self, out |-> o3, panic |-> TRUE]
                 ELSE IF is_disconnect(r3.result)
                 THEN [self |-> r3.self, out |-> o3 \o bye, panic |-> FALSE]
                 ELSE [self |-> r3.self, out |-> o3, panic |-> FALSE]
        ELSE IF ctx.id \notin DOMAIN self.remote_infos
        THEN [self |-> self, out |-> <<>>, panic |-> TRUE]
        ELSE LET info == self.remote_infos[ctx.id]
                 r == misbehave(self.callback, info.peer_id, InvalidData)
             IN  [self |-> self,
                  out |-> r.out \o (IF is_disconnect(r.result)
                                    THEN <<Eff("disconnect", ctx.id, 0)>>
                                    ELSE <<>>),
                  panic |-> FALSE]

\* ServiceProtocol::received.  The three steps are joined by `||`: a step runs
\* only when every step before it answered Continue.  The effects record the
\* entry into process_listens and process_observed as well.
received(self, ctx, data) ==
    IF ~self.secio_enabled
    THEN [self |-> self, out |-> <<>>, panic |-> FALSE]
    ELSE
    LET message == IdentifyMessage_decode(data)
    IN  IF is_some(message)
        THEN LET r1 == received_identify(self.callback, ctx, unwrap(message).identify)
                 r2 == process_listens(self, ctx, unwrap(message).listen_addrs)
                 r3 == process_observed(r2.self, ctx, unwrap(message).observed_addr)
                 o1 == r1.out
                 o2 == o1 \o <<Eff("process_listens", ctx.id, 0)>> \o r2.out
                 o3 == o2 \o <<Eff("process_observed", ctx.id, 0)>> \o r3.out
                 bye == <<Eff("disconnect", ctx.id, 0)>>
             IN  IF is_disconnect(r1.result)
                 THEN [self |-> self, out |-> o1 \o bye, panic |-> FALSE]
                 ELSE IF r2.panic
                 THEN [self |-> self, out |-> o2, panic |-> TRUE]
                 ELSE IF is_disconnect(r2.result)
                 THEN [self |-> r2.self, out |-> o2 \o bye, panic |-> FALSE]
                 ELSE IF r3.panic
                 THEN [self |-> r2.self, out |-> o3, panic |-> TRUE]
                 ELSE IF is_disconnect(r3.result)
                 THEN [self |-> r3.self, out |-> o3 \o bye, panic |-> FALSE]
                 ELSE [self |-> r3.self, out |-> o3, panic |-> FALSE]
        ELSE IF ctx.id \notin DOMAIN self.remote_infos
        THEN [self |-> self, out |-> <<>>, panic |-> TRUE]
        ELSE LET info == self.remote_infos[ctx.id]
                 r == misbehave(self.callback, info.peer_id, InvalidData)
             IN  [self |-> self,
                  out |-> r.out \o (IF is_disconnect(r.result)
                                    THEN <<Eff("disconnect", ctx.id, 0)>>
                                    ELSE <<>>),
                  panic |-> FALSE]

\* The body of notify's loop for one entry.
notify_one(self, session_id, now) ==
    LET info == self.remote_infos[session_id]
    IN  IF (is_none(info.listen_addrs) \/ is_none(info.observed_addr))
           /\ info.connected_at + info.timeout <= now
        THEN LET r == misbehave(self.callback, info.peer_id, Timeout)
             IN  r.out \o (IF is_disconnect(r.result)
                           THEN <<Eff("disconnect", session_id, 0)>>
                           ELSE <<>>)
        ELSE <<>>

RECURSIVE notify_loop(_, _, _)
\* notify's loop over the entries ids of remote_infos.  A HashMap iterates in
\* no specified order; every entry is visited once, here by ascending id.
notify_loop(self, ids, now) ==
    IF ids = {} THEN <<>>
    ELSE LET s == CHOOSE x \in ids : \A y \in ids : x <= y
         IN  notify_one(self, s, now) \o notify_loop(self, ids \ {s}, now)

\* Mutant of notify: the entries are checked whatever secio_enabled is.
notify_unguarded(self, now) ==
    [self |-> self,
     out |-> notify_loop(self, DOMAIN self.remote_infos, now),
     panic |-> FALSE]

\* ServiceProtocol::notify; now is Instant::now().
notify(self, now) ==
    IF ~self.secio_enabled
    THEN [self |-> self, out |-> <<>>, panic |-> FALSE]
    ELSE [self |-> self,
          out |-> notify_loop(self, DOMAIN self.remote_infos, now),
          panic |-> FALSE]

(***************************************************************************)
(* One protocol instance under the session transport.                      *)
(*                                                                         *)
(* The transport opens each session once (connected), then delivers any    *)
(* number of messages on it (received), then closes it once                *)
(* (disconnected); session ids are never reused.  context.disconnect only  *)
(* asks the transport to close the session: the close arrives later, as    *)
(* disconnected.  init has scheduled notify every CHECK_TIMEOUT_INTERVAL   *)
(* seconds.                                                                *)
(***************************************************************************)
VARIABLES
    sessions,        \* session id -> the kind of session the transport opened
    phase,           \* session id -> "new", "open" or "closed"
    now,             \* the clock, in seconds
    notify_interval, \* the interval init gave set_service_notify
    identify,        \* IdentifyCallback.identify
    policy,          \* what the callback's misbehave answers
    remote_infos,    \* IdentifyProtocol.remote_infos
    secio_enabled,   \* IdentifyProtocol.secio_enabled
    global_ip_only,  \* IdentifyProtocol.global_ip_only
    panicked,        \* whether a handler panicked
    last,            \* the last event the transport delivered
    out              \* the effects of the handler of the last event

ivars == <<sessions, phase, now, notify_interval, identify, policy, remote_infos,
           secio_enabled, global_ip_only, panicked, last, out>>

\* Two instances, nodes "a" and "b", joined by one session that a dialed
\* (see PairSpec below).
VARIABLES
    pconf,           \* how the two nodes are configured
    pnode,           \* node -> its IdentifyProtocol and Identify payload
    pconn,           \* node -> "new", "open" or "closed": its end of the session
    pwire,           \* node -> the messages in flight to it
    pnow,            \* the clock, in seconds
    precv,           \* node -> "no", or "intime"/"late": when data reached it
    plog             \* node -> every effect of its handlers, in order

pvars == <<pconf, pnode, pconn, pwire, pnow, precv, plog>>

\* The tx-pool service, its controllers and their callers (see TxPoolSpec).
VARIABLES
    controllers,     \* controller -> "none", "alive" or "dropped"
    callers,         \* controller -> what the thread using it is doing
    channel,         \* the message channel: [buffer, rx_dropped]
    signal,          \* the stop signal: "pending" or "fired"
    server,          \* the service loop: "running", "stopped" or "exited"
    tasks,           \* message id -> the dispatch task spawned for it
    lock,            \* the pool's RwLock: [writer, readers]
    service,         \* the TxPoolService: the pool, the assembler, the counters
    responders,      \* message id -> the reply slot of that request
    clock,           \* unix_time_as_millis()
    history          \* what happened so far: [calls, accepted, spawned, ...]

tvars == <<controllers, callers, channel, signal, server, tasks, lock, service,
           responders, clock, history>>

vars == <<ivars, pvars, tvars>>

SessionIds == 1..MaxSessions
\* An outbound session, an outbound session to a feeler peer, an inbound
\* session, a session whose remote has no public key.
SessionKinds == {"outbound", "feeler", "inbound", "nokey"}

\* Addresses used by the inputs: two global ones, a private one, one that
\* names no socket address.
G1 == <<IP4("8.8.8.8"), TCP("8115")>>
G2 == <<IP4("1.1.1.1"), TCP("8116")>>
P1 == <<IP4("10.0.0.1"), TCP("8115")>>
D1 == <<DNS("node.example"), TCP("8115")>>
Repeat(a, n) == [i \in 1..n |-> a]

\* The SessionContext of session s.
SessionContext(kinds, s) ==
    [id |-> s,
     ty |-> IF kinds[s] \in {"outbound", "feeler"} THEN "Outbound" ELSE "Inbound",
     remote_pubkey |-> IF kinds[s] = "nokey" THEN None ELSE Some(s),
     address |-> IF kinds[s] = "nokey" THEN G2 ELSE G2 \o <<P2P(ToString(s))>>]

\* The local node's configuration.
LocalName == "mainnet"
LocalVersion == "v1"
LocalProtocolIds == {"identify", "sync", "relay", FEELER_PROTOCOL_ID}
LocalPublicAddrs == <<<<G1, 3>>, <<P1, 1>>, <<G2, 2>>>>

\* The NetworkState the callback sees: the registry holds a peer for every
\* open session with a public key.
NetworkState(kinds, ph, addrs) ==
    LET open == {s \in DOMAIN ph : ph[s] = "open" /\ kinds[s] /= "nokey"}
    IN  [public_addrs |-> addrs,
         protocol_ids |-> LocalProtocolIds,
         peers |-> [s \in open |-> from_public_key(s)],
         feelers |-> {from_public_key(s) : s \in {x \in DOMAIN kinds : kinds[x] = "feeler"}}]

\* The instance, given the phase of the sessions.
Self(kinds, ph) ==
    [callback |-> [network_state |-> NetworkState(kinds, ph, LocalPublicAddrs),
                   identify |-> identify, policy |-> policy],
     remote_infos |-> remote_infos,
     secio_enabled |-> secio_enabled,
     global_ip_only |-> global_ip_only]

\* The messages a remote peer may send.
Junk == [fmt |-> "junk", listen_addrs |-> <<>>, observed_addr |-> <<>>,
         identify |-> EmptyBytes]
IdentifyBytes(name, flag, version) ==
    [fmt |-> "Identify", name |-> name, flag |-> flag, client_version |-> version]
Message(listens, observed, name, flag, version) ==
    IdentifyMessage_encode(
        IdentifyMessage_new(listens, observed, IdentifyBytes(name, flag, version)))
Wire ==
    {Junk,
     \* a well-formed message from a peer of the same network
     Message(<<P1, G1, D1>>, G2, LocalName, 1, "v2"),
     Message(Repeat(G1, MAX_ADDRS), P1, LocalName, 3, "v2"),
     \* one listen address too many
     Message(Repeat(G1, MAX_ADDRS + 1), G2, LocalName, 1, "v2"),
     \* flags that lack FullNode, and no flags
     Message(<<G1>>, G2, LocalName, 2, "v2"),
     Message(<<G1>>, G2, LocalName, 0, "v2"),
     \* another network
     Message(<<G1>>, G2, "testnet", 1, "v2"),
     \* a payload the reader rejects
     Message(<<G1>>, G2, LocalName, 1, InvalidUtf8)}

Event(op, sid, data) == [op |-> op, sid |-> sid, data |-> data]

IdentifyInit ==
    /\ sessions = [s \in SessionIds |-> "none"]
    /\ phase = [s \in SessionIds |-> "new"]
    /\ now = 0
    /\ notify_interval = CHECK_TIMEOUT_INTERVAL
    /\ identify = Identify_new(LocalName, FullNode, LocalVersion)
    /\ policy \in {Disconnect, Continue}
    /\ remote_infos = <<>>
    /\ secio_enabled = TRUE
    /\ global_ip_only = TRUE
    /\ panicked = FALSE
    /\ last = Event("init", 0, Junk)
    /\ out = <<>>

(***************************************************************************)
(* Two peers running this protocol, joined by one session.  Node "a"       *)
(* dialed node "b": the session is outbound at a and inbound at b, and     *)
(* each end numbers it 1.  Both run IdentifyCallback, whose misbehave      *)
(* answers Disconnect.  What connected sends at one end is delivered to    *)
(* the other end, after that end's connected, while its end is open.       *)
(***************************************************************************)
Nodes == {"a", "b"}
Other(n) == IF n = "a" THEN "b" ELSE "a"

\* More public addresses than public_addrs is asked for, best score last.
ManyPublicAddrs ==
    [i \in 1..(2 * MAX_RETURN_LISTEN_ADDRS + 1) |->
        <<<<IP4("8.8.8.8"), TCP(ToString(9000 + i))>>, 100 - i>>]

PairConfs ==
    [name : [Nodes -> {"mainnet", "testnet"}],
     addrs : [Nodes -> {LocalPublicAddrs, ManyPublicAddrs}],
     feeler : BOOLEAN,      \* whether a's registry marks b as a feeler
     source : {G1, P1}]     \* a's address as b's end of the session sees it

PairVersion(n) == IF n = "a" THEN "v1" ELSE "v2"

\* The SessionContext of the session at node n.
PairContext(conf, n) ==
    [id |-> 1,
     ty |-> IF n = "a" THEN "Outbound" ELSE "Inbound",
     remote_pubkey |-> Some(Other(n)),
     address |-> IF n = "a" THEN G2 \o <<P2P("b")>> ELSE conf.source]

\* The NetworkState of node n: its registry holds the peer while n's end of
\* the session is open.
PairNetworkState(conf, conn, n) ==
    [public_addrs |-> conf.addrs[n],
     protocol_ids |-> LocalProtocolIds,
     peers |-> IF conn[n] = "open"
               THEN [s \in {1} |-> from_public_key(Other(n))]
               ELSE <<>>,
     feelers |-> IF n = "a" /\ conf.feeler THEN {from_public_key("b")} ELSE {}]

\* The instance of node n.
PairSelf(conn, n) ==
    [callback |-> [network_state |-> PairNetworkState(pconf, conn, n),
                   identify |-> pnode[n].identify, policy |-> Disconnect],
     remote_infos |-> pnode[n].remote_infos,
     secio_enabled |-> pnode[n].secio_enabled,
     global_ip_only |-> pnode[n].global_ip_only]

\* A node as constructed: IdentifyProtocol::new(IdentifyCallback::new(..)).
PairNode(name, version) ==
    LET p == IdentifyProtocol_new(
                 IdentifyCallback_new(<<>>, name, version, Disconnect))
    IN  [identify |-> p.callback.identify, remote_infos |-> p.remote_infos,
         secio_enabled |-> p.secio_enabled, global_ip_only |-> p.global_ip_only]

PairStart(confs) ==
    /\ pconf \in confs
    /\ pnode = [n \in Nodes |-> PairNode(pconf.name[n], PairVersion(n))]
    /\ pconn = [n \in Nodes |-> "new"]
    /\ pwire = [n \in Nodes |-> <<>>]
    /\ pnow = 0
    /\ precv = [n \in Nodes |-> "no"]
    /\ plog = [n \in Nodes |-> <<>>]

(***************************************************************************)
(* The tx-pool service (tx-pool/src/service.rs).  A controller operation   *)
(* builds a Message and try_sends it into a channel of                     *)
(* DEFAULT_CHANNEL_SIZE slots; the service loop receives the messages and  *)
(* spawns one dispatch task, process, for each; the tasks share the pool   *)
(* behind an RwLock.  A message is the record [kind, arguments, id]: id    *)
(* stands for the reply channel a Request carries, and numbers a Notify.   *)
(***************************************************************************)
DEFAULT_CHANNEL_SIZE == 512

\* Bounds of the exploration.
\* Controller operations invoked in one run.
MaxCalls == 3
\* Messages the loop takes from a channel that was full when it started.
MaxBacklogSpawns == 2
\* The clock's last value.
MaxClock == 2

Controllers == {1, 2}
Txs == {1, 2}

\* The variants of Message that carry a Request, and those that carry a Notify.
RequestKinds ==
    {"BlockTemplate", "SubmitTxs", "FreshProposalsFilter", "FetchTxs",
     "FetchTxsWithCycles", "GetTxPoolInfo", "FetchTxRPC", "PlugEntry",
     "EstimateFeeRate"}
NotifyKinds == {"NotifyTxs", "ChainReorg", "NewUncle"}

\* Request::call and Notify::notify, wrapped in their Message variant.
Request_call(kind, arguments, responder) ==
    [kind |-> kind, arguments |-> arguments, id |-> responder]
Notify_notify(kind, arguments, n) ==
    [kind |-> kind, arguments |-> arguments, id |-> n]

\* PlugTarget.
Pending == "Pending"
Proposed == "Proposed"

\* mpsc::channel(buffer) and Sender::try_send: the message is queued unless
\* the receiver is gone or every slot is taken.
mpsc_channel == [buffer |-> <<>>, rx_dropped |-> FALSE]

\* Mutant of try_send: the channel has no capacity.
try_send_unbounded(chan, message) ==
    IF chan.rx_dropped
    THEN [chan |-> chan, result |-> "Closed"]
    ELSE [chan |-> [chan EXCEPT !.buffer = Append(@, message)], result |-> "Ok"]

try_send(chan, message) ==
    IF chan.rx_dropped
    THEN [chan |-> chan, result |-> "Closed"]
    ELSE IF Len(chan.buffer) >= DEFAULT_CHANNEL_SIZE
    THEN [chan |-> chan, result |-> "Full"]
    ELSE [chan |-> [chan EXCEPT !.buffer = Append(@, message)], result |-> "Ok"]

\* handle_try_send_error: the error handed to the caller.
handle_try_send_error(e) ==
    IF e = "Full" THEN "TrySendError::Full" ELSE "TrySendError::Closed"

\* Mutant of controller_send: a Request waits for its reply whatever
\* try_send answered.
controller_send_then_recv(chan, message) ==
    LET sent == try_send(chan, message)
    IN  IF message.kind \in RequestKinds
        THEN [chan |-> sent.chan, then |-> "recv",
              value |-> IF sent.result = "Ok" THEN "Ok"
                        ELSE handle_try_send_error(sent.result)]
        ELSE [chan |-> sent.chan, then |-> "return",
              value |-> IF sent.result = "Ok" THEN "Ok"
                        ELSE handle_try_send_error(sent.result)]

\* What a controller operation does with the message it built: the channel
\* after it, and either the error it returns at once, or "recv" when it goes
\* on to response.recv(), or "Ok" when it returns Ok(()).
controller_send(chan, message) ==
    LET sent == try_send(chan, message)
    IN  IF sent.result /= "Ok"
        THEN [chan |-> sent.chan, then |-> "return",
              value |-> handle_try_send_error(sent.result)]
        ELSE IF message.kind \in RequestKinds
        THEN [chan |-> sent.chan, then |-> "recv", value |-> "Ok"]
        ELSE [chan |-> sent.chan, then |-> "return", value |-> "Ok"]

\* What an operation returned to its caller: Ok or Err, and the reply or the
\* error, each a record.  A thread using a controller is idle, holding what its last
\* operation returned, or blocked in response.recv() on reply channel id.
Returned(op, tag, value) == [op |-> op, tag |-> tag, value |-> value]
Error(e) == [error |-> e]
Unit == [unit |-> "()"]
Idle(id, returned) == [pc |-> "idle", id |-> id, last |-> returned]
Blocked(op, id, returned) ==
    [pc |-> "recv", id |-> id, last |-> [returned EXCEPT !.op = op]]

\* The operations of TxPoolController with the arguments the callers use:
\* [op, kind, arguments].
Operation(op, kind, arguments) == [op |-> op, kind |-> kind, arguments |-> arguments]
Operations ==
    {Operation("get_block_template", "BlockTemplate", <<>>),
     Operation("notify_new_uncle", "NewUncle", "uncle"),
     Operation("update_tx_pool_for_reorg", "ChainReorg",
               [detached |-> {2}, attached |-> {1}]),
     Operation("submit_txs", "SubmitTxs", <<1>>),
     Operation("plug_entry", "PlugEntry", [entries |-> <<1, 2>>, target |-> Pending]),
     Operation("plug_entry", "PlugEntry", [entries |-> <<1, 2>>, target |-> Proposed]),
     Operation("notify_txs", "NotifyTxs", <<2>>),
     Operation("get_tx_pool_info", "GetTxPoolInfo", <<>>),
     Operation("fresh_proposals_filter", "FreshProposalsFilter", <<1, 2>>),
     Operation("fetch_tx_for_rpc", "FetchTxRPC", 1),
     Operation("fetch_txs", "FetchTxs", <<1, 2>>),
     Operation("fetch_txs_with_cycles", "FetchTxsWithCycles", <<1, 2>>),
     Operation("estimate_fee_rate", "EstimateFeeRate", 1)}

\* What the callers of one run do: the operations they invoke.
Workloads ==
    {{o \in Operations : o.op \in ops} :
        ops \in {{"submit_txs", "fetch_txs", "update_tx_pool_for_reorg"},
                 {"plug_entry", "get_tx_pool_info", "fetch_txs_with_cycles"},
                 {"notify_new_uncle", "get_block_template", "estimate_fee_rate"},
                 {"notify_txs", "fresh_proposals_filter", "fetch_tx_for_rpc"}}}

\* TxPool::new and TxPoolService::new: an empty pool, no candidate uncle,
\* both counters 0.
TxPoolService_new(block_assembler) ==
    [tx_pool |-> [pending |-> {}, proposed |-> {}],
     block_assembler |-> block_assembler,
     candidate_uncles |-> {},
     last_uncles_updated_at |-> 0,
     last_txs_updated_at |-> 0]

\* The channel after `n` uncles were announced and not yet received.
Backlog(n) ==
    [i \in 1..n |-> Notify_notify("NewUncle", "uncle", i)]

\* TxPoolServiceBuilder::start: the channel, the stop signal, the loop and
\* one controller.  The service thread may be scheduled late: the callers
\* may have filled the channel but for one slot before its first receive.
TxPoolStart(assemblers, backlogs, workloads) ==
    /\ controllers = [c \in Controllers |-> IF c = 1 THEN "alive" ELSE "none"]
    /\ callers = [c \in Controllers |-> Idle(0, Returned("none", "none", Unit))]
    /\ \E n \in backlogs :
           /\ channel = [mpsc_channel EXCEPT !.buffer = Backlog(n)]
           /\ \E w \in workloads :
                  history = [workload |-> w, calls |-> n, caller |-> 0,
                             accepted |-> n, spawned |-> <<>>, backlog |-> n, reorgs |-> {},
                             applied |-> {},
                             fetches |-> <<>>, submitted |-> {}]
    /\ signal = "pending"
    /\ server = "running"
    /\ tasks = <<>>
    /\ lock = [writer |-> 0, readers |-> {}]
    /\ \E a \in assemblers : service = TxPoolService_new(a)
    /\ responders = <<>>
    /\ clock = 1

\* The service while the identify protocol is checked.
TxPoolIdle == TxPoolStart({FALSE}, {0}, {{}})

\* The pair while the single instance is checked, and the single instance
\* while the pair is checked.
PairIdle ==
    PairStart({[name |-> [n \in Nodes |-> LocalName],
                addrs |-> [n \in Nodes |-> LocalPublicAddrs],
                feeler |-> FALSE, source |-> G1]})
IdentifyIdle ==
    /\ IdentifyInit
    /\ policy = Disconnect

Init == IdentifyInit /\ PairIdle /\ TxPoolIdle

\* The instance after a handler, and what the handler did.
Apply(r, ev) ==
    /\ identify' = r.self.callback.identify
    /\ remote_infos' = r.self.remote_infos
    /\ secio_enabled' = r.self.secio_enabled
    /\ global_ip_only' = r.self.global_ip_only
    /\ panicked' = r.panic
    /\ out' = r.out
    /\ last' = ev

\* The transport opens session s, of kind k.  It numbers the sessions in the
\* order it opens them.
Connected(s, k) ==
    /\ ~panicked
    /\ phase[s] = "new"
    /\ \A x \in SessionIds : x < s => phase[x] /= "new"
    /\ now <= MaxOpenTime
    /\ phase' = [phase EXCEPT ![s] = "open"]
    /\ sessions' = [sessions EXCEPT ![s] = k]
    /\ Apply(connected(Self(sessions', phase'), SessionContext(sessions', s), now),
             Event("connected", s, Junk))
    /\ UNCHANGED <<now, notify_interval, policy>>
    /\ UNCHANGED <<pvars, tvars>>

\* The transport delivers data on session s.
Received(s, data) ==
    /\ ~panicked
    /\ phase[s] = "open"
    /\ Apply(received(Self(sessions, phase), SessionContext(sessions, s), data),
             Event("received", s, data))
    /\ UNCHANGED <<sessions, phase, now, notify_interval, policy>>
    /\ UNCHANGED <<pvars, tvars>>

\* The transport closes session s.
Disconnected(s) ==
    /\ ~panicked
    /\ phase[s] = "open"
    /\ phase' = [phase EXCEPT ![s] = "closed"]
    /\ Apply(disconnected(Self(sessions, phase'), SessionContext(sessions, s)),
             Event("disconnected", s, Junk))
    /\ UNCHANGED <<sessions, now, notify_interval, policy>>
    /\ UNCHANGED <<pvars, tvars>>

\* The timer fires: notify_interval seconds have passed.  The clock is read
\* only against connected_at, so it starts with the first session: before
\* that remote_infos is empty and notify does nothing.
Tick ==
    /\ ~panicked
    /\ \E s \in SessionIds : phase[s] /= "new"
    /\ now < MaxTime
    /\ now' = now + notify_interval
    /\ Apply(notify(Self(sessions, phase), now'), Event("notify", 0, Junk))
    /\ UNCHANGED <<sessions, phase, notify_interval, policy>>
    /\ UNCHANGED <<pvars, tvars>>

Next ==
    \/ \E s \in SessionIds : \E k \in SessionKinds : Connected(s, k)
    \/ \E s \in SessionIds : \E data \in Wire : Received(s, data)
    \/ \E s \in SessionIds : Disconnected(s)
    \/ Tick

Spec == Init /\ [][Next]_vars

(***************************************************************************)
(* The pair's events.                                                      *)
(***************************************************************************)
\* The messages among effects, in order.
Sends(effects) ==
    LET hits == SelectSeq(effects, LAMBDA e : e.op = "quick_send_message")
    IN  [i \in 1..Len(hits) |-> hits[i].arg]
\* Whether some effect asks the transport to close the session.
AsksDisconnect(effects) == \E i \in 1..Len(effects) : effects[i].op = "disconnect"

\* The effects of a handler with result r; a panic is logged as an effect.
Effects(r) == r.out \o (IF r.panic THEN <<Eff("panic", 0, 0)>> ELSE <<>>)

\* Node n after a handler with result r.
PairApply(n, r) ==
    [identify |-> r.self.callback.identify, remote_infos |-> r.self.remote_infos,
     secio_enabled |-> r.self.secio_enabled,
     global_ip_only |-> r.self.global_ip_only]

\* The session opens at node n: connected; what it sends travels to the peer.
PConnected(n) ==
    /\ pconn[n] = "new"
    /\ pnow <= MaxOpenTime
    /\ pconn' = [pconn EXCEPT ![n] = "open"]
    /\ LET r == connected(PairSelf(pconn', n), PairContext(pconf, n), pnow)
       IN  /\ pnode' = [pnode EXCEPT ![n] = PairApply(n, r)]
           /\ plog' = [plog EXCEPT ![n] = @ \o Effects(r)]
           /\ pwire' = IF pconn[Other(n)] = "closed" THEN pwire
                       ELSE [pwire EXCEPT ![Other(n)] = @ \o Sends(r.out)]
    /\ UNCHANGED <<pconf, pnow, precv>>
    /\ UNCHANGED <<ivars, tvars>>

\* The transport delivers the first message in flight to node n: received.
PDeliver(n) ==
    /\ pconn[n] = "open"
    /\ pwire[n] /= <<>>
    /\ LET r == received(PairSelf(pconn, n), PairContext(pconf, n), Head(pwire[n]))
           due == \E s \in DOMAIN pnode[n].remote_infos :
                      pnode[n].remote_infos[s].connected_at + DEFAULT_TIMEOUT <= pnow
       IN  /\ pnode' = [pnode EXCEPT ![n] = PairApply(n, r)]
           /\ plog' = [plog EXCEPT ![n] = @ \o Effects(r)]
           /\ precv' = [precv EXCEPT ![n] = IF due THEN "late" ELSE "intime"]
    /\ pwire' = [pwire EXCEPT ![n] = Tail(@)]
    /\ UNCHANGED <<pconf, pconn, pnow>>
    /\ UNCHANGED <<ivars, tvars>>

\* Some end asked for the session to be closed; it closes at node n:
\* disconnected, and what was in flight to n is dropped.
PDisconnected(n) ==
    /\ pconn[n] = "open"
    /\ \E m \in Nodes : AsksDisconnect(plog[m])
    /\ pconn' = [pconn EXCEPT ![n] = "closed"]
    /\ LET r == disconnected(PairSelf(pconn', n), PairContext(pconf, n))
       IN  /\ pnode' = [pnode EXCEPT ![n] = PairApply(n, r)]
           /\ plog' = [plog EXCEPT ![n] = @ \o Effects(r)]
    /\ pwire' = [pwire EXCEPT ![n] = <<>>]
    /\ UNCHANGED <<pconf, pnow, precv>>
    /\ UNCHANGED <<ivars, tvars>>

\* A second passes and both nodes' timers fire: notify at each.
PTick ==
    /\ \E n \in Nodes : pconn[n] /= "new"
    /\ pnow < MaxTime
    /\ pnow' = pnow + CHECK_TIMEOUT_INTERVAL
    /\ plog' = [n \in Nodes |-> plog[n] \o notify(PairSelf(pconn, n), pnow').out]
    /\ UNCHANGED <<pconf, pnode, pconn, pwire, precv>>
    /\ UNCHANGED <<ivars, tvars>>

PairInit == IdentifyIdle /\ PairStart(PairConfs) /\ TxPoolIdle

PairNext ==
    \/ \E n \in Nodes : PConnected(n)
    \/ \E n \in Nodes : PDeliver(n)
    \/ \E n \in Nodes : PDisconnected(n)
    \/ PTick

PairSpec == PairInit /\ [][PairNext]_vars

(***************************************************************************)
(* The tx-pool service: the controllers and the service loop.              *)
(***************************************************************************)
\* The responder of request id is alive: its message is queued or a task
\* holds it.
ResponderAlive(id) ==
    \/ \E i \in 1..Len(channel.buffer) : channel.buffer[i].id = id
    \/ id \in DOMAIN tasks

\* #[derive(Clone)]: controller c is cloned into d.
Clone(c, d) ==
    /\ controllers[c] = "alive"
    /\ controllers[d] = "none"
    /\ controllers' = [controllers EXCEPT ![d] = "alive"]
    /\ UNCHANGED <<callers, channel, signal, server, tasks, lock, service,
                   responders, clock, history>>
    /\ UNCHANGED <<ivars, pvars>>

\* Mutant of Drop: the stop signal is fired by the last controller only.
Drop_last_clone(c) ==
    /\ controllers[c] = "alive"
    /\ callers[c].pc = "idle"
    /\ controllers' = [controllers EXCEPT ![c] = "dropped"]
    /\ signal' = IF \E d \in Controllers \ {c} : controllers[d] = "alive"
                 THEN signal ELSE "fired"
    /\ UNCHANGED <<callers, channel, server, tasks, lock, service, responders,
                   clock, history>>
    /\ UNCHANGED <<ivars, pvars>>

\* Drop for TxPoolController: stop.try_send() fires the stop signal.
Drop(c) ==
    /\ controllers[c] = "alive"
    /\ callers[c].pc = "idle"
    /\ controllers' = [controllers EXCEPT ![c] = "dropped"]
    /\ signal' = "fired"
    /\ UNCHANGED <<callers, channel, server, tasks, lock, service, responders,
                   clock, history>>
    /\ UNCHANGED <<ivars, pvars>>

\* A thread invokes operation o on controller c: the message is built and
\* try_sent; on an error the operation returns it, a Notify returns Ok(()),
\* a Request goes on to response.recv().
Call(c, o) ==
    /\ controllers[c] = "alive"
    /\ callers[c].pc = "idle"
    /\ history.calls - history.backlog < MaxCalls
    /\ o \in history.workload
    /\ LET id == history.accepted + 1
           message == IF o.kind \in RequestKinds
                      THEN Request_call(o.kind, o.arguments, id)
                      ELSE Notify_notify(o.kind, o.arguments, id)
           r == controller_send(channel, message)
       IN  /\ channel' = r.chan
           /\ callers' = [callers EXCEPT ![c] =
                  IF r.then = "recv"
                  THEN Blocked(o.op, id, callers[c].last)
                  ELSE Idle(IF r.value = "Ok" THEN id ELSE 0,
                            IF r.value = "Ok"
                            THEN Returned(o.op, "Ok", Unit)
                            ELSE Returned(o.op, "Err", Error(r.value)))]
           /\ responders' = IF r.then = "recv"
                            THEN insert(responders, id, None)
                            ELSE responders
           /\ history' = [history EXCEPT
                  !.calls = @ + 1,
                  !.caller = c,
                  !.accepted = IF r.value = "Ok" THEN id ELSE @,
                  !.reorgs = IF r.value = "Ok" /\ o.kind = "ChainReorg"
                             THEN @ \cup {[id |-> id,
                                            attached |-> o.arguments.attached]}
                             ELSE @,
                  !.fetches = IF r.value = "Ok" /\ o.kind = "FetchTxs"
                              THEN insert(@, id, history.submitted) ELSE @]
    /\ UNCHANGED <<controllers, signal, server, tasks, lock, service, clock>>
    /\ UNCHANGED <<ivars, pvars>>

\* response.recv() returns to the thread blocked on controller c: the reply,
\* or an error once the responder is gone without a reply.
Recv(c) ==
    /\ callers[c].pc = "recv"
    /\ LET id == callers[c].id
       IN  \/ /\ is_some(responders[id])
              /\ callers' = [callers EXCEPT ![c] =
                     Idle(id, Returned(callers[c].last.op, "Ok",
                                       unwrap(responders[id])))]
           \/ /\ is_none(responders[id])
              /\ ~ResponderAlive(id)
              /\ callers' = [callers EXCEPT ![c] =
                     Idle(id, Returned(callers[c].last.op, "Err", Error("RecvError")))]
    /\ UNCHANGED <<controllers, channel, signal, server, tasks, lock, service,
                   responders, clock, history>>
    /\ UNCHANGED <<ivars, pvars>>

\* Mutant of receive: the newest message is taken.
receive_newest(chan) ==
    [chan |-> [chan EXCEPT !.buffer = SubSeq(@, 1, Len(@) - 1)],
     message |-> chan.buffer[Len(chan.buffer)]]

\* Receiver::recv on a channel that holds a message: the oldest one.
receive(chan) ==
    [chan |-> [chan EXCEPT !.buffer = Tail(@)], message |-> Head(chan.buffer)]

\* The dispatch task spawned for a message: process(service, message), not
\* yet polled.
process(message) ==
    [message |-> message, pc |-> "start", entries |-> <<>>, verdict |-> "none",
     seen |-> [pending |-> {}, proposed |-> {}]]

\* Mutant of select: the stop signal is never looked at.
select_messages_only(chan, stop) ==
    IF chan.buffer /= <<>> THEN {"message"} ELSE {}

\* tokio::select! in the loop: the arms that are ready, of which it takes any.
\* (The else arm needs both others disabled: every sender gone while the
\* signal is still pending; dropping a controller fires the signal first.)
select(chan, stop) ==
    (IF chan.buffer /= <<>> THEN {"message"} ELSE {})
    \cup (IF stop = "fired" THEN {"signal"} ELSE {})

\* The loop's first select! arm: a message is received and its dispatch task
\* spawned.  select! may take this arm while the stop signal is ready too.
LoopReceive ==
    /\ server = "running"
    /\ "message" \in select(channel, signal)
    /\ history.backlog > 0 => Len(history.spawned) < MaxBacklogSpawns
    /\ LET r == receive(channel)
       IN  /\ channel' = r.chan
           /\ tasks' = insert(tasks, r.message.id, process(r.message))
           /\ history' = [history EXCEPT !.spawned = Append(@, r.message.id)]
    /\ UNCHANGED <<controllers, callers, signal, server, lock, service,
                   responders, clock>>
    /\ UNCHANGED <<ivars, pvars>>

\* The loop's second arm: the stop signal is ready and the loop breaks.
LoopStop ==
    /\ server = "running"
    /\ "signal" \in select(channel, signal)
    /\ server' = "stopped"
    /\ UNCHANGED <<controllers, callers, channel, signal, tasks, lock, service,
                   responders, clock, history>>
    /\ UNCHANGED <<ivars, pvars>>

\* The server future ends: the receiver is dropped, and with it the messages
\* still queued and their responders.
LoopExit ==
    /\ server = "stopped"
    /\ server' = "exited"
    /\ channel' = [buffer |-> <<>>, rx_dropped |-> TRUE]
    /\ UNCHANGED <<controllers, callers, signal, tasks, lock, service,
                   responders, clock, history>>
    /\ UNCHANGED <<ivars, pvars>>

\* The runtime shuts down after the loop: a task suspended at an await is
\* dropped, and its responder with it.
Cancel(i) ==
    /\ server = "exited"
    /\ i \in DOMAIN tasks
    /\ tasks[i].pc \in {"start", "verified"}
    /\ tasks' = remove(tasks, i)
    /\ UNCHANGED <<controllers, callers, channel, signal, server, lock, service,
                   responders, clock, history>>
    /\ UNCHANGED <<ivars, pvars>>

\* unix_time_as_millis(): the time read, never before the last time read.
Times == clock..MaxClock

(***************************************************************************)
(* TxPool, BlockAssembler and the pipeline behind process: the pool is     *)
(* the record [pending, proposed] of sets of txs.                          *)
(***************************************************************************)
InPool(tx_pool, id) == id \in tx_pool.pending \cup tx_pool.proposed

\* TxPool::add_pending and TxPool::add_proposed: an entry the pool already
\* holds is refused.
add_pending(tx_pool, entry) ==
    IF InPool(tx_pool, entry) THEN tx_pool
    ELSE [tx_pool EXCEPT !.pending = @ \cup {entry}]
add_proposed(tx_pool, entry) ==
    IF InPool(tx_pool, entry) THEN tx_pool
    ELSE [tx_pool EXCEPT !.proposed = @ \cup {entry}]

\* TxPool::info.
TxPool_info(svc) ==
    [pending_size |-> Cardinality(svc.tx_pool.pending),
     proposed_size |-> Cardinality(svc.tx_pool.proposed),
     last_txs_updated_at |-> svc.last_txs_updated_at]

\* TxPoolService::get_block_template: a template needs an assembler.
get_block_template(svc) ==
    IF svc.block_assembler
    THEN [tag |-> "Ok", proposals |-> svc.tx_pool.pending,
          transactions |-> svc.tx_pool.proposed, uncles |-> svc.candidate_uncles]
    ELSE [tag |-> "Err", proposals |-> {}, transactions |-> {}, uncles |-> {}]

\* TxPoolService::process_txs, its verdict on txs against the pool it reads,
\* and the pool after it submitted them.
process_txs_verify(tx_pool, txs) ==
    IF \E i \in 1..Len(txs) : InPool(tx_pool, txs[i]) THEN "Err" ELSE "Ok"
process_txs_submit(tx_pool, txs) ==
    [tx_pool EXCEPT !.pending = @ \cup {txs[i] : i \in 1..Len(txs)}]

\* TxPoolService::update_tx_pool_for_reorg, in its two halves: the txs of the
\* detached blocks return to pending, those the attached blocks rule out
\* leave the pool.
reorg_detach(tx_pool, arguments) ==
    [tx_pool EXCEPT !.pending = @ \cup (arguments.detached \ tx_pool.proposed)]
reorg_attach(tx_pool, arguments) ==
    [pending |-> tx_pool.pending \ arguments.attached,
     proposed |-> tx_pool.proposed \ arguments.attached]

(***************************************************************************)
(* process (service.rs:361-514), step by step.                             *)
(***************************************************************************)
\* The variants whose handler answers from the pool under the read lock.
ReadKinds ==
    {"GetTxPoolInfo", "BlockTemplate", "FreshProposalsFilter", "FetchTxRPC",
     "FetchTxs", "FetchTxsWithCycles", "EstimateFeeRate"}
SubmitKinds == {"SubmitTxs", "NotifyTxs"}
WriteKinds == {"PlugEntry", "ChainReorg"}

\* Mutant of can_write: a writer is let in beside readers.
can_write_beside_readers(l) == l.writer = 0

\* RwLock: read().await resolves when no writer holds the lock, write().await
\* when nobody does.
can_read(l) == l.writer = 0
can_write(l) == l.writer = 0 /\ l.readers = {}

\* Mutant of fetch_txs: every id asked for is answered.
fetch_txs_all(pool, short_ids) == {short_ids[i] : i \in 1..Len(short_ids)}

\* FetchTxs: the short ids for which get_tx_from_pool_or_store finds a tx.
fetch_txs(pool, short_ids) ==
    {short_ids[i] : i \in {j \in 1..Len(short_ids) : InPool(pool, short_ids[j])}}

\* The reply a read handler computes from the pool, a record.
read_reply(message, svc) ==
    LET pool == svc.tx_pool
        ids == message.arguments
    IN  CASE message.kind = "GetTxPoolInfo" -> TxPool_info(svc)
          [] message.kind = "BlockTemplate" -> get_block_template(svc)
          [] message.kind = "FreshProposalsFilter" ->
                 [fresh |-> SelectSeq(ids, LAMBDA id : ~InPool(pool, id))]
          [] message.kind = "FetchTxRPC" ->
                 [tx |-> IF ids \in pool.proposed THEN Some(<<TRUE, ids>>)
                         ELSE IF ids \in pool.pending THEN Some(<<FALSE, ids>>)
                         ELSE None]
          [] message.kind = "FetchTxs" ->
                 [txs |-> fetch_txs(pool, ids)]
          [] message.kind = "FetchTxsWithCycles" ->
                 [with_cycles |-> SelectSeq(ids, LAMBDA id : InPool(pool, id))]
          [] message.kind = "EstimateFeeRate" -> [fee_rate |-> "fee_rate"]

\* Mutant of plug_entry: every entry goes to the pending set.
plug_entry_pending_only(tx_pool, entry, target) == add_pending(tx_pool, entry)

\* The body of PlugEntry's loops: one entry is inserted as target says.
plug_entry(tx_pool, entry, target) ==
    IF target = Pending THEN add_pending(tx_pool, entry)
    ELSE add_proposed(tx_pool, entry)

\* responder.send(reply), and the end of a task.
Reply(id, reply) == responders' = [responders EXCEPT ![id] = Some(reply)]
Finish(i) == tasks' = remove(tasks, i)

\* tx_pool.read().await resolves in task i.
ReadLock(i) ==
    /\ i \in DOMAIN tasks
    /\ tasks[i].pc = "start"
    /\ tasks[i].message.kind \in ReadKinds \cup SubmitKinds
    /\ can_read(lock)
    /\ lock' = [lock EXCEPT !.readers = @ \cup {i}]
    /\ tasks' = [tasks EXCEPT ![i].pc = "read", ![i].seen = service.tx_pool]
    /\ UNCHANGED <<controllers, callers, channel, signal, server, service,
                   responders, clock, history>>
    /\ UNCHANGED <<ivars, pvars>>

\* A read handler computes its reply, sends it and lets go of the lock.
ReadReply(i) ==
    /\ i \in DOMAIN tasks
    /\ tasks[i].pc = "read"
    /\ tasks[i].message.kind \in ReadKinds
    /\ Reply(i, read_reply(tasks[i].message, service))
    /\ lock' = [lock EXCEPT !.readers = @ \ {i}]
    /\ Finish(i)
    /\ UNCHANGED <<controllers, callers, channel, signal, server, service,
                   clock, history>>
    /\ UNCHANGED <<ivars, pvars>>

\* process_txs has read the pool and verified the txs; the read lock is let go.
SubmitVerify(i) ==
    /\ i \in DOMAIN tasks
    /\ tasks[i].pc = "read"
    /\ tasks[i].message.kind \in SubmitKinds
    /\ lock' = [lock EXCEPT !.readers = @ \ {i}]
    /\ tasks' = [tasks EXCEPT
           ![i].pc = "verified",
           ![i].verdict = process_txs_verify(service.tx_pool,
                                             tasks[i].message.arguments)]
    /\ UNCHANGED <<controllers, callers, channel, signal, server, service,
                   responders, clock, history>>
    /\ UNCHANGED <<ivars, pvars>>

\* process_txs takes the write lock, submits the verified txs unless the pool
\* took one meanwhile, and the outcome is sent (SubmitTxs) or handed to the
\* callback (NotifyTxs).
SubmitWrite(i) ==
    /\ i \in DOMAIN tasks
    /\ tasks[i].pc = "verified"
    /\ can_write(lock)
    /\ LET txs == tasks[i].message.arguments
           ok == /\ tasks[i].verdict = "Ok"
                 /\ process_txs_verify(service.tx_pool, txs) = "Ok"
       IN  /\ IF ok
              THEN \E time \in Times :
                       /\ clock' = time
                       /\ service' = [service EXCEPT
                              !.tx_pool = process_txs_submit(@, txs),
                              !.last_txs_updated_at = time]
              ELSE UNCHANGED <<service, clock>>
           /\ history' = IF ok
                         THEN [history EXCEPT !.submitted =
                                  @ \cup {txs[k] : k \in 1..Len(txs)}]
                         ELSE history
           /\ IF tasks[i].message.kind = "SubmitTxs"
              THEN Reply(i, [tag |-> IF ok THEN "Ok" ELSE "Err", verified |-> txs])
              ELSE UNCHANGED responders
    /\ Finish(i)
    /\ UNCHANGED <<controllers, callers, channel, signal, server, lock>>
    /\ UNCHANGED <<ivars, pvars>>

\* tx_pool.write().await resolves in task i.
WriteLock(i) ==
    /\ i \in DOMAIN tasks
    /\ tasks[i].pc = "start"
    /\ tasks[i].message.kind \in WriteKinds
    /\ can_write(lock)
    /\ lock' = [lock EXCEPT !.writer = i]
    /\ tasks' = [tasks EXCEPT
           ![i].pc = "write",
           ![i].seen = service.tx_pool,
           ![i].entries = IF tasks[i].message.kind = "PlugEntry"
                          THEN tasks[i].message.arguments.entries ELSE <<>>]
    /\ UNCHANGED <<controllers, callers, channel, signal, server, service,
                   responders, clock, history>>
    /\ UNCHANGED <<ivars, pvars>>

\* PlugEntry: the next entry is inserted.
PlugInsert(i) ==
    /\ i \in DOMAIN tasks
    /\ tasks[i].pc = "write"
    /\ tasks[i].message.kind = "PlugEntry"
    /\ tasks[i].entries /= <<>>
    /\ service' = [service EXCEPT !.tx_pool =
           plug_entry(@, Head(tasks[i].entries), tasks[i].message.arguments.target)]
    /\ tasks' = [tasks EXCEPT ![i].entries = Tail(@)]
    /\ UNCHANGED <<controllers, callers, channel, signal, server, lock,
                   responders, clock, history>>
    /\ UNCHANGED <<ivars, pvars>>

\* Mutant of PlugReply: the handler ends without sending its reply.
PlugReply_unanswered(i) ==
    /\ i \in DOMAIN tasks
    /\ tasks[i].pc = "write"
    /\ tasks[i].message.kind = "PlugEntry"
    /\ tasks[i].entries = <<>>
    /\ lock' = [lock EXCEPT !.writer = 0]
    /\ Finish(i)
    /\ UNCHANGED <<controllers, callers, channel, signal, server, service,
                   responders, clock, history>>
    /\ UNCHANGED <<ivars, pvars>>

\* PlugEntry: every entry was attempted; the reply is sent and the lock let go.
PlugReply(i) ==
    /\ i \in DOMAIN tasks
    /\ tasks[i].pc = "write"
    /\ tasks[i].message.kind = "PlugEntry"
    /\ tasks[i].entries = <<>>
    /\ Reply(i, Unit)
    /\ lock' = [lock EXCEPT !.writer = 0]
    /\ Finish(i)
    /\ UNCHANGED <<controllers, callers, channel, signal, server, service,
                   clock, history>>
    /\ UNCHANGED <<ivars, pvars>>

\* ChainReorg: the detached blocks are applied.
ReorgDetach(i) ==
    /\ i \in DOMAIN tasks
    /\ tasks[i].pc = "write"
    /\ tasks[i].message.kind = "ChainReorg"
    /\ service' = [service EXCEPT !.tx_pool =
           reorg_detach(@, tasks[i].message.arguments)]
    /\ tasks' = [tasks EXCEPT ![i].pc = "attach"]
    /\ UNCHANGED <<controllers, callers, channel, signal, server, lock,
                   responders, clock, history>>
    /\ UNCHANGED <<ivars, pvars>>

\* ChainReorg: the attached blocks are applied, the timestamp is updated and
\* the lock let go.
ReorgAttach(i) ==
    /\ i \in DOMAIN tasks
    /\ tasks[i].pc = "attach"
    /\ \E time \in Times :
           /\ clock' = time
           /\ service' = [service EXCEPT
                  !.tx_pool = reorg_attach(@, tasks[i].message.arguments),
                  !.last_txs_updated_at = time]
    /\ lock' = [lock EXCEPT !.writer = 0]
    /\ history' = [history EXCEPT !.applied = @ \cup {i}]
    /\ Finish(i)
    /\ UNCHANGED <<controllers, callers, channel, signal, server, responders>>
    /\ UNCHANGED <<ivars, pvars>>

\* NewUncle: with an assembler the uncle joins candidate_uncles; without one
\* the handler does nothing.
UncleInsert(i) ==
    /\ i \in DOMAIN tasks
    /\ tasks[i].pc = "start"
    /\ tasks[i].message.kind = "NewUncle"
    /\ IF service.block_assembler
       THEN /\ service' = [service EXCEPT !.candidate_uncles =
                               @ \cup {tasks[i].message.arguments}]
            /\ tasks' = [tasks EXCEPT ![i].pc = "store"]
       ELSE /\ Finish(i)
            /\ UNCHANGED service
    /\ UNCHANGED <<controllers, callers, channel, signal, server, lock,
                   responders, clock, history>>
    /\ UNCHANGED <<ivars, pvars>>

\* NewUncle: last_uncles_updated_at.store(unix_time_as_millis(), SeqCst).
UncleStore(i) ==
    /\ i \in DOMAIN tasks
    /\ tasks[i].pc = "store"
    /\ \E time \in Times :
           /\ clock' = time
           /\ service' = [service EXCEPT !.last_uncles_updated_at = time]
    /\ Finish(i)
    /\ UNCHANGED <<controllers, callers, channel, signal, server, lock,
                   responders, history>>
    /\ UNCHANGED <<ivars, pvars>>

TxPoolInit ==
    /\ IdentifyIdle
    /\ PairIdle
    /\ TxPoolStart(BOOLEAN, {0, DEFAULT_CHANNEL_SIZE - 1}, Workloads)

TxPoolNext ==
    \/ \E c, d \in Controllers : Clone(c, d)
    \/ \E c \in Controllers : Drop(c)
    \/ \E c \in Controllers : \E o \in Operations : Call(c, o)
    \/ \E c \in Controllers : Recv(c)
    \/ LoopReceive
    \/ LoopStop
    \/ LoopExit
    \/ \E i \in DOMAIN tasks : Cancel(i)
    \/ \E i \in DOMAIN tasks : ReadLock(i)
    \/ \E i \in DOMAIN tasks : ReadReply(i)
    \/ \E i \in DOMAIN tasks : SubmitVerify(i)
    \/ \E i \in DOMAIN tasks : SubmitWrite(i)
    \/ \E i \in DOMAIN tasks : WriteLock(i)
    \/ \E i \in DOMAIN tasks : PlugInsert(i)
    \/ \E i \in DOMAIN tasks : PlugReply(i)
    \/ \E i \in DOMAIN tasks : ReorgDetach(i)
    \/ \E i \in DOMAIN tasks : ReorgAttach(i)
    \/ \E i \in DOMAIN tasks : UncleInsert(i)
    \/ \E i \in DOMAIN tasks : UncleStore(i)

TxPoolSpec == TxPoolInit /\ [][TxPoolNext]_vars

\* The loop is a task of the runtime and is polled while an arm of select! is
\* ready.  select! starts at a random arm, so it cannot pass over the ready
\* stop signal forever; after break the server future ends.
TxPoolFairInit ==
    /\ IdentifyIdle
    /\ PairIdle
    /\ TxPoolStart(BOOLEAN, {0}, Workloads)
TxPoolFairSpec ==
    TxPoolFairInit /\ [][TxPoolNext]_vars /\ WF_vars(LoopStop) /\ WF_vars(LoopExit)

\* The runtime polls every task that can go on, the loop among them, and
\* drops the suspended tasks when it shuts down; a thread blocked in
\* response.recv() wakes once the reply is sent or the responder dropped.
TaskStep ==
    \E i \in DOMAIN tasks :
        \/ ReadLock(i) \/ ReadReply(i) \/ SubmitVerify(i) \/ SubmitWrite(i)
        \/ WriteLock(i) \/ PlugInsert(i) \/ PlugReply(i)
        \/ ReorgDetach(i) \/ ReorgAttach(i) \/ UncleInsert(i) \/ UncleStore(i)
TxPoolLiveSpec ==
    /\ TxPoolFairInit
    /\ [][TxPoolNext]_vars
    /\ WF_vars(LoopReceive) /\ WF_vars(LoopStop) /\ WF_vars(LoopExit)
    /\ WF_vars(TaskStep)
    /\ WF_vars(\E i \in DOMAIN tasks : Cancel(i))
    /\ WF_vars(\E c \in Controllers : Recv(c))

(***************************************************************************)
(* What the last handler did.                                              *)
(***************************************************************************)
\* The effects op of the last handler, as indices of out.
Calls(op) == {i \in 1..Len(out) : out[i].op = op}
\* The last handler reported misbehavior `kind` of session s's peer.
Reported(s, kind) ==
    \E i \in Calls("misbehave") :
        out[i].who = from_public_key(s) /\ out[i].arg.kind = kind
\* The last handler asked the transport to close session s.
DisconnectAsked(s) == \E i \in Calls("disconnect") : out[i].who = s
\* The last event was data received on session s.
LastReceived(s) == last.op = "received" /\ last.sid = s
\* Whether a Multiaddr names a globally routable socket address.
IsGlobal(addr) == reachable_filter(addr, TRUE)
AllGlobal(addrs) == \A i \in 1..Len(addrs) : IsGlobal(addrs[i])

(***************************************************************************)
(* C1.  The registry holds an entry for a session exactly while the        *)
(* session is connected: an entry is there only for an open session, and   *)
(* every open session with a public key has one.                           *)
(* Fails: once a session without a public key has connected,               *)
(* secio_enabled is false and disconnected removes nothing.                *)
(***************************************************************************)
C1_EntryExactlyWhileConnected ==
    \A s \in SessionIds :
        /\ s \in DOMAIN remote_infos => phase[s] = "open"
        /\ (phase[s] = "open" /\ sessions[s] /= "nokey") => s \in DOMAIN remote_infos

\* The same, for the sessions that connected while secio_enabled was true.
C1_WhileSecioEnabled == secio_enabled => C1_EntryExactlyWhileConnected

(***************************************************************************)
(* C2.  In every step, a RemoteInfo that stays in the registry keeps a     *)
(* listen_addrs and an observed_addr that are already Some; a received     *)
(* message that enters process_listens while listen_addrs is Some is       *)
(* reported as DuplicateListenAddrs, and one that enters process_observed  *)
(* while observed_addr is Some as DuplicateObservedAddr.                   *)
(***************************************************************************)
C2_Step ==
    \A s \in (DOMAIN remote_infos) \cap (DOMAIN remote_infos') :
        LET info == remote_infos[s]
            info2 == remote_infos'[s]
            got(op) == \E i \in 1..Len(out') : out'[i].op = op /\ out'[i].who = s
            told(kind) == \E i \in 1..Len(out') :
                              /\ out'[i].op = "misbehave"
                              /\ out'[i].who = info.peer_id
                              /\ out'[i].arg = kind
        IN  /\ is_some(info.listen_addrs) => info2.listen_addrs = info.listen_addrs
            /\ is_some(info.observed_addr) => info2.observed_addr = info.observed_addr
            /\ (is_some(info.listen_addrs) /\ got("process_listens"))
                   => told(DuplicateListenAddrs)
            /\ (is_some(info.observed_addr) /\ got("process_observed"))
                   => told(DuplicateObservedAddr)
C2_SetOnce == [][C2_Step]_vars

\* Both duplicates reported for one message, the stored values kept.
C2_Witness ==
    \E s \in DOMAIN remote_infos :
        /\ LastReceived(s)
        /\ Reported(s, "DuplicateListenAddrs")
        /\ Reported(s, "DuplicateObservedAddr")
        /\ is_some(remote_infos[s].listen_addrs)
        /\ remote_infos[s].listen_addrs /= Some(last.data.listen_addrs)

(***************************************************************************)
(* C3.  connected on a session without a public key only asks the          *)
(* transport to close it: no hook is called, nothing is sent, and no       *)
(* RemoteInfo is ever held for such a session.                             *)
(***************************************************************************)
C3_NoKeyNoState ==
    /\ \A s \in SessionIds : sessions[s] = "nokey" => s \notin DOMAIN remote_infos
    /\ (last.op = "connected" /\ sessions[last.sid] = "nokey")
           => /\ Len(out) = 1
              /\ out[1].op = "disconnect"
              /\ out[1].who = last.sid

C3_Witness ==
    /\ last.op = "connected"
    /\ sessions[last.sid] = "nokey"
    /\ DisconnectAsked(last.sid)

(***************************************************************************)
(* C4.  After every tick, every session still in the registry whose        *)
(* listen_addrs and observed_addr are both unset 8 s after it connected    *)
(* has been reported for Timeout by that tick, and under the default       *)
(* policy the tick asked to close it.                                      *)
(* Fails: once secio_enabled is false notify reports nothing.              *)
(***************************************************************************)
Overdue(s) ==
    /\ s \in DOMAIN remote_infos
    /\ phase[s] = "open"
    /\ is_none(remote_infos[s].listen_addrs)
    /\ is_none(remote_infos[s].observed_addr)
    /\ remote_infos[s].connected_at + DEFAULT_TIMEOUT <= now

C4_TimeoutOnTick ==
    last.op = "notify" =>
        \A s \in SessionIds :
            Overdue(s) => /\ Reported(s, "Timeout")
                          /\ policy = Disconnect => DisconnectAsked(s)

\* The same, as long as no session without a public key has connected.
C4_WhileSecioEnabled == secio_enabled => C4_TimeoutOnTick

(***************************************************************************)
(* C5.  A received message that enters process_listens with more than 10   *)
(* listen addresses while listen_addrs is None is reported as              *)
(* TooManyAddresses(n), n the number of addresses; listen_addrs stays      *)
(* None, add_remote_listen_addrs is not called, and under the default      *)
(* policy the handler asks to close the session.                           *)
(***************************************************************************)
C5_Step ==
    \A s \in DOMAIN remote_infos :
        LET n == Len(last'.data.listen_addrs)
        IN  (/\ is_none(remote_infos[s].listen_addrs)
             /\ last'.op = "received" /\ last'.sid = s
             /\ \E i \in 1..Len(out') : out'[i].op = "process_listens"
             /\ n > MAX_ADDRS)
            => /\ \E i \in 1..Len(out') :
                      /\ out'[i].op = "misbehave"
                      /\ out'[i].who = remote_infos[s].peer_id
                      /\ out'[i].arg = TooManyAddresses(n)
               /\ s \in DOMAIN remote_infos'
               /\ is_none(remote_infos'[s].listen_addrs)
               /\ \A i \in 1..Len(out') : out'[i].op /= "add_remote_listen_addrs"
               /\ policy = Disconnect =>
                      \E i \in 1..Len(out') :
                          out'[i].op = "disconnect" /\ out'[i].who = s
C5_TooManyAddresses == [][C5_Step]_vars

C5_Witness ==
    \E s \in DOMAIN remote_infos :
        /\ LastReceived(s)
        /\ Len(last.data.listen_addrs) = MAX_ADDRS + 1
        /\ \E i \in Calls("misbehave") : out[i].arg = TooManyAddresses(MAX_ADDRS + 1)
        /\ is_none(remote_infos[s].listen_addrs)
        /\ DisconnectAsked(s)

\* A tick that finds an overdue session and reports it.
C4_Witness ==
    /\ last.op = "notify"
    /\ \E s \in SessionIds : Overdue(s) /\ Reported(s, "Timeout")

(***************************************************************************)
(* What received_identify did when the last handler called it.             *)
(***************************************************************************)
\* The last handler called received_identify for session s.
IdentifyReceived(s) ==
    /\ LastReceived(s)
    /\ \E i \in Calls("received_identify") : out[i].who = s
\* What verify makes of the payload of the last message.
Verified == Identify_verify(identify, last.data.identify)
\* received_identify answered Continue: the handler went on to process_listens.
AnsweredContinue == Calls("process_listens") /= {}
\* The last handler opened exactly the protocols ids on session s, in one call.
OpenedExactly(s, ids) ==
    /\ Cardinality(Calls("open_protocols")) = 1
    /\ \A i \in Calls("open_protocols") : out[i].who = s /\ out[i].arg = ids

(***************************************************************************)
(* C6.  When received_identify is called for an outbound session whose     *)
(* peer is no feeler with a payload that verifies: if the remote flags     *)
(* contain the local flags, exactly the local protocols other than the     *)
(* feeler protocol are opened and the answer is Continue; otherwise no     *)
(* protocol is opened, the answer is Disconnect and the handler asks to    *)
(* close the session.                                                      *)
(***************************************************************************)
C6_OutboundFlags ==
    \A s \in SessionIds :
        (IdentifyReceived(s) /\ sessions[s] = "outbound" /\ is_some(Verified))
        => IF BitAnd(unwrap(Verified).flags, identify.flags) = identify.flags
           THEN /\ OpenedExactly(s, LocalProtocolIds \ {FEELER_PROTOCOL_ID})
                /\ AnsweredContinue
           ELSE /\ Calls("open_protocols") = {}
                /\ ~AnsweredContinue
                /\ DisconnectAsked(s)

\* Remote flags 3 contain the local flag 1: the protocols are opened.
C6_Witness ==
    \E s \in SessionIds :
        /\ IdentifyReceived(s) /\ sessions[s] = "outbound" /\ is_some(Verified)
        /\ unwrap(Verified).flags = 3
        /\ OpenedExactly(s, {"identify", "sync", "relay"})

\* Remote flags 2 lack the local flag 1: the session is closed.
C6_WitnessDisconnect ==
    \E s \in SessionIds :
        /\ IdentifyReceived(s) /\ sessions[s] = "outbound" /\ is_some(Verified)
        /\ unwrap(Verified).flags = 2
        /\ DisconnectAsked(s)

(***************************************************************************)
(* C7.  As claimed: whenever received_identify is called for an outbound   *)
(* session to a feeler peer, exactly the feeler protocol is opened and     *)
(* the answer is Continue, whatever the payload.                           *)
(* Fails for a payload that does not verify (another name, flag 0).        *)
(***************************************************************************)
C7_FeelerAlways ==
    \A s \in SessionIds :
        (IdentifyReceived(s) /\ sessions[s] = "feeler")
        => OpenedExactly(s, {FEELER_PROTOCOL_ID}) /\ AnsweredContinue

(***************************************************************************)
(* C7, amended.  Whenever received_identify is called for an outbound      *)
(* session to a feeler peer with a payload that verifies, exactly the      *)
(* feeler protocol is opened, whatever the remote flags, and the answer    *)
(* is Continue.                                                            *)
(***************************************************************************)
C7_FeelerVerified ==
    \A s \in SessionIds :
        (IdentifyReceived(s) /\ sessions[s] = "feeler" /\ is_some(Verified))
        => OpenedExactly(s, {FEELER_PROTOCOL_ID}) /\ AnsweredContinue

\* A feeler whose flags lack the local flag still gets the feeler protocol.
C7_Witness ==
    \E s \in SessionIds :
        /\ IdentifyReceived(s) /\ sessions[s] = "feeler" /\ is_some(Verified)
        /\ unwrap(Verified).flags = 2
        /\ OpenedExactly(s, {FEELER_PROTOCOL_ID})

(***************************************************************************)
(* C10.  The addresses the last handler handed to the callback and the     *)
(* address store.                                                          *)
(***************************************************************************)
ForwardedGlobal ==
    /\ \A i \in Calls("add_remote_listen_addrs") : AllGlobal(out[i].arg)
    /\ \A i \in Calls("listened_addrs") : AllGlobal(out[i].arg)
    /\ \A i \in Calls("add_addr") : IsGlobal(out[i].arg)
    /\ \A i \in Calls("add_observed_addr") : IsGlobal(out[i].arg)
    /\ \A i \in Calls("add_observed_addrs") : AllGlobal(out[i].arg)

(***************************************************************************)
(* The pair: what each node has done so far.                               *)
(***************************************************************************)
\* The positions in node n's log of the effects named op.
Logged(n, op) == {i \in 1..Len(plog[n]) : plog[n][i].op = op}
\* Node n reported some misbehavior.
ReportedAny(n) == Logged(n, "misbehave") /= {}
\* Node n banned the session for BAN_ON_NOT_SAME_NET seconds.
Banned(n) ==
    \E i \in Logged(n, "ban_session") :
        plog[n][i].who = 1 /\ plog[n][i].arg = BAN_ON_NOT_SAME_NET
\* Node n recorded client_version `version` on the peer record.
Recorded(n, version) ==
    \E i \in Logged(n, "identify_info") : plog[n][i].arg = version
\* Node n opened the protocols ids on the session.
Opened(n, ids) ==
    \E i \in Logged(n, "open_protocols") : plog[n][i].arg = ids
\* Node n holds nothing of the peer's addresses.
NothingStored(n) ==
    /\ \A s \in DOMAIN pnode[n].remote_infos :
           /\ is_none(pnode[n].remote_infos[s].listen_addrs)
           /\ is_none(pnode[n].remote_infos[s].observed_addr)
    /\ Logged(n, "add_remote_listen_addrs") = {}
    /\ Logged(n, "add_observed_addr") = {}
\* The envelope node n sent.
Sent(n) == Sends(plog[n])[1]
\* Node n sent one identify message once its end opened, none before, with
\* at most MAX_ADDRS listen addresses.
SentOnce(n) ==
    /\ Len(Sends(plog[n])) = (IF pconn[n] = "new" THEN 0 ELSE 1)
    /\ \A i \in 1..Len(Sends(plog[n])) :
           Len(Sends(plog[n])[i].listen_addrs) <= MAX_ADDRS
\* Node n holds what its peer sent, recorded the peer's client_version, and,
\* at the outbound end, opened every local protocol but the feeler protocol.
Completed(n) ==
    /\ \A s \in DOMAIN pnode[n].remote_infos :
           /\ pnode[n].remote_infos[s].listen_addrs =
                  Some(Sent(Other(n)).listen_addrs)
           /\ pnode[n].remote_infos[s].observed_addr =
                  Some(Sent(Other(n)).observed_addr)
    /\ Recorded(n, PairVersion(Other(n)))
    /\ n = "a" => Opened(n, LocalProtocolIds \ {FEELER_PROTOCOL_ID})
DifferentNames == pconf.name["a"] /= pconf.name["b"]
SameNetwork == pconf.name["a"] = pconf.name["b"] /\ ~pconf.feeler

\* C8: two peers with different names: at each, receiving the other's
\* identify message bans the session for 300 s and asks for the disconnect,
\* and at neither is a protocol opened, a client_version recorded, or a
\* listen or observed address stored or forwarded.
C8_DifferentNames ==
    DifferentNames =>
        \A n \in Nodes :
            /\ precv[n] /= "no" => Banned(n) /\ AsksDisconnect(plog[n])
            /\ Logged(n, "open_protocols") = {}
            /\ Logged(n, "identify_info") = {}
            /\ NothingStored(n)

\* Both nodes received the other's message, each banned the session, and the
\* session is closed at both ends.
C8_Witness ==
    /\ DifferentNames
    /\ \A n \in Nodes : precv[n] /= "no" /\ Banned(n) /\ pconn[n] = "closed"

\* C9 as stated: two peers of one network, the dialed one no feeler: neither
\* ever reports misbehavior, each sends one message with at most 10 listen
\* addresses, and each, once the other's message reached it, holds the
\* other's addresses and has recorded its client_version, the outbound end
\* having opened every non-feeler protocol.
C9_NoMisbehavior ==
    SameNetwork =>
        \A n \in Nodes :
            /\ ~ReportedAny(n)
            /\ SentOnce(n)
            /\ precv[n] /= "no" => Completed(n)

\* C9: as above, except that misbehavior is ruled out only at a node the
\* other's message reached before that node's timeout check fell due; any
\* report that is made is a Timeout report.
C9_TimelyHandshake ==
    SameNetwork =>
        \A n \in Nodes :
            /\ precv[n] = "intime" => ~ReportedAny(n)
            /\ \A i \in Logged(n, "misbehave") : plog[n][i].arg = Timeout
            /\ SentOnce(n)
            /\ precv[n] /= "no" => Completed(n)

\* Both messages arrived in time, a sent the 10 best of its 21 public
\* addresses, and both nodes hold the other's addresses.
C9_Witness ==
    /\ SameNetwork
    /\ pconf.addrs["a"] = ManyPublicAddrs
    /\ \A n \in Nodes : precv[n] = "intime" /\ 1 \in DOMAIN pnode[n].remote_infos
    /\ Len(Sent("a").listen_addrs) = MAX_RETURN_LISTEN_ADDRS
    /\ pnode["b"].remote_infos[1].listen_addrs = Some(Sent("a").listen_addrs)
    /\ pnode["a"].remote_infos[1].observed_addr = Some(pconf.source)
    /\ Opened("a", LocalProtocolIds \ {FEELER_PROTOCOL_ID})

(***************************************************************************)
(* C10.  As claimed: with global_ip_only true, every address stored in a   *)
(* RemoteInfo (listen_addrs, observed_addr) and every address forwarded    *)
(* to the callback or the address store is globally routable.              *)
(* Fails: process_observed stores the observed address whatever it is.     *)
(***************************************************************************)
C10_StoredAndForwardedGlobal ==
    global_ip_only =>
        /\ ForwardedGlobal
        /\ \A s \in DOMAIN remote_infos :
               /\ is_some(remote_infos[s].listen_addrs)
                      => AllGlobal(unwrap(remote_infos[s].listen_addrs))
               /\ is_some(remote_infos[s].observed_addr)
                      => IsGlobal(unwrap(remote_infos[s].observed_addr))

(***************************************************************************)
(* C10, amended.  With global_ip_only true, every address stored in a      *)
(* RemoteInfo's listen_addrs and every address forwarded to the callback   *)
(* or the address store (add_remote_listen_addrs, add_observed_addr) is    *)
(* globally routable; observed_addr is stored as received.                 *)
(***************************************************************************)
C10_ListensAndForwardedGlobal ==
    global_ip_only =>
        /\ ForwardedGlobal
        /\ \A s \in DOMAIN remote_infos :
               is_some(remote_infos[s].listen_addrs)
                   => AllGlobal(unwrap(remote_infos[s].listen_addrs))

\* A list with a private address and one that names no socket was filtered.
C10_Witness ==
    \E s \in DOMAIN remote_infos :
        /\ LastReceived(s)
        /\ last.data.listen_addrs = <<P1, G1, D1>>
        /\ remote_infos[s].listen_addrs = Some(<<G1>>)
        /\ \E i \in Calls("add_remote_listen_addrs") : out[i].arg = <<G1>>

(***************************************************************************)
(* C11.  A payload whose flag field is 0 fails verify whatever its name    *)
(* and client_version, the local name included; when such a payload is     *)
(* received, received_identify answers Disconnect: the session is banned   *)
(* and its close is asked for, no protocol is opened and no                *)
(* client_version is recorded.                                             *)
(***************************************************************************)
C11_FlagZeroRejected ==
    /\ \A name \in {LocalName, "testnet", InvalidUtf8} :
       \A version \in {"v1", "v2", InvalidUtf8} :
           is_none(Identify_verify(identify, IdentifyBytes(name, 0, version)))
    /\ \A s \in SessionIds :
           (IdentifyReceived(s) /\ last.data.identify.flag = 0)
           => /\ ~AnsweredContinue
              /\ DisconnectAsked(s)
              /\ Calls("ban_session") /= {}
              /\ Calls("open_protocols") = {}
              /\ Calls("identify_info") = {}

\* A payload with the local name and flag 0 arrived on an outbound session.
C11_Witness ==
    \E s \in SessionIds :
        /\ IdentifyReceived(s) /\ sessions[s] = "outbound"
        /\ last.data.identify.flag = 0
        /\ last.data.identify.name = LocalName
        /\ DisconnectAsked(s)

(***************************************************************************)
(* C20.  In a step that receives a message that decodes and hands it to    *)
(* the hooks: received_identify is called first, then process_listens,     *)
(* then process_observed, each only when every call before it answered     *)
(* Continue.  When received_identify answers Disconnect no RemoteInfo      *)
(* changes; when process_listens answers Disconnect observed_addr keeps    *)
(* its value; the close of the session is asked for once when a call       *)
(* answered Disconnect, and not otherwise.                                 *)
(***************************************************************************)
C20_Step ==
    \A s \in SessionIds :
        (/\ last'.op = "received" /\ last'.sid = s
         /\ last'.data.fmt = "IdentifyMessage"
         /\ \E i \in 1..Len(out') : out'[i].op = "received_identify"
         /\ ~panicked')
        => LET o == out'
               at(op) == {i \in 1..Len(o) : o[i].op = op}
               before(a, b) == \A i \in at(a) : \A j \in at(b) : i < j
               v == Identify_verify(identify, last'.data.identify)
               told(kinds) == \E i \in at("misbehave") : o[i].arg.kind \in kinds
               \* the answers, read off what each call did
               d1 == \/ is_none(v)
                     \/ /\ sessions[s] = "outbound"
                        /\ ~contains(unwrap(v).flags, identify.flags)
               d2 == /\ policy = Disconnect
                     /\ told({"DuplicateListenAddrs", "TooManyAddresses"})
               d3 == /\ policy = Disconnect
                     /\ told({"DuplicateObservedAddr"})
               asked == Cardinality({i \in at("disconnect") : o[i].who = s})
           IN  /\ o[1].op = "received_identify"
               /\ Cardinality(at("received_identify")) = 1
               /\ Cardinality(at("process_listens")) = (IF d1 THEN 0 ELSE 1)
               /\ Cardinality(at("process_observed")) = (IF d1 \/ d2 THEN 0 ELSE 1)
               /\ before("received_identify", "process_listens")
               /\ before("process_listens", "process_observed")
               /\ d1 => remote_infos' = remote_infos
               /\ (~d1 /\ d2) => remote_infos'[s].observed_addr =
                                     remote_infos[s].observed_addr
               /\ asked = (IF d1 \/ d2 \/ d3 THEN 1 ELSE 0)
               /\ Cardinality(at("disconnect")) = asked
C20_HooksInOrder == [][C20_Step]_vars

\* process_listens answered Disconnect for an eleventh address: the message
\* went through received_identify, process_observed was not entered.
C20_Witness ==
    \E s \in SessionIds :
        /\ IdentifyReceived(s)
        /\ Reported(s, "TooManyAddresses")
        /\ Calls("process_listens") /= {}
        /\ Calls("process_observed") = {}
        /\ Cardinality(Calls("disconnect")) = 1
        /\ is_none(remote_infos[s].observed_addr)


(***************************************************************************)
(* The tx-pool service: what the claims say of it.                         *)
(***************************************************************************)
\* A step in which a controller operation was invoked, and the thread that
\* invoked it after the step.
Invoked == history'.calls = history.calls + 1
Invoker == callers'[history'.caller]
\* No thread starts waiting on a reply channel in this step.
NobodyStartsWaiting ==
    /\ \A c \in Controllers : callers'[c].pc = "recv" => callers[c].pc = "recv"
    /\ responders' = responders

\* C12: the channel never holds more than 512 messages, and an operation
\* invoked while it holds 512 returns the full-channel error at once: the
\* channel is as it was, and the caller waits on no reply channel.
C12_Step ==
    /\ Len(channel'.buffer) <= DEFAULT_CHANNEL_SIZE
    /\ (Invoked /\ ~channel.rx_dropped
               /\ Len(channel.buffer) = DEFAULT_CHANNEL_SIZE)
       => /\ channel' = channel
          /\ history'.accepted = history.accepted
          /\ Invoker.pc = "idle"
          /\ Invoker.last.tag = "Err"
          /\ Invoker.last.value = Error("TrySendError::Full")
          /\ NobodyStartsWaiting
C12_Backpressure ==
    Len(channel.buffer) <= DEFAULT_CHANNEL_SIZE /\ [][C12_Step]_vars
\* Some operation was refused by the full channel.
C12_Witness ==
    /\ Len(channel.buffer) = DEFAULT_CHANNEL_SIZE
    /\ history.caller /= 0
    /\ history.calls > history.accepted
    /\ callers[history.caller].last.tag = "Err"
    /\ callers[history.caller].last.value = Error("TrySendError::Full")

\* The dispatch tasks that hold the pool for writing, and for reading.
Writers == {i \in DOMAIN tasks : tasks[i].pc \in {"write", "attach"}}
Readers == {i \in DOMAIN tasks : tasks[i].pc = "read"}

\* C13: a writer holds the pool alone, so the pool a reader locked stays as
\* it was until the reader lets go, and while a ChainReorg or PlugEntry holds
\* the pool nothing else changes it or reads it: a read sees the pool before
\* the write or after it.
C13_Held ==
    /\ Cardinality(Writers) <= 1
    /\ Writers /= {} => Readers = {} /\ Writers = {lock.writer}
    /\ Writers = {} => lock.writer = 0
    /\ Readers = lock.readers
    /\ \A i \in Readers : tasks[i].seen = service.tx_pool
C13_Step ==
    /\ service'.tx_pool /= service.tx_pool
       => /\ Readers = {}
          /\ \A w \in Writers : w \notin DOMAIN tasks' \/ tasks'[w] /= tasks[w]
    /\ \A i \in DOMAIN responders' :
           (i \in DOMAIN tasks /\ tasks[i].message.kind \in ReadKinds
               /\ responders'[i] /= responders[i])
           => /\ Writers = {}
              /\ responders'[i] = Some(read_reply(tasks[i].message, service))
C13_WritersExclusive == []C13_Held /\ [][C13_Step]_vars
\* A PlugEntry holds the pool with one entry inserted and one to go while a
\* read handler waits for the lock.
C13_Witness ==
    \E w \in Writers : \E r \in DOMAIN tasks :
        /\ tasks[w].message.kind = "PlugEntry"
        /\ Len(tasks[w].entries) = 1
        /\ service.tx_pool /= [pending |-> {}, proposed |-> {}]
        /\ tasks[r].pc = "start"
        /\ tasks[r].message.kind \in ReadKinds

\* C14: dropping a controller fires the stop signal; once it is fired the
\* loop eventually ends; and the loop spawns a dispatch task only while it
\* has not taken the signal.
C14_Step ==
    /\ (\E c \in Controllers : controllers[c] = "alive" /\ controllers'[c] = "dropped")
       => signal' = "fired"
    /\ (history'.spawned /= history.spawned \/ DOMAIN tasks' \ DOMAIN tasks /= {})
       => server = "running" /\ server' = "running"
C14_StopEndsLoop ==
    /\ [][C14_Step]_vars
    /\ (signal = "fired") ~> (server = "exited")
    /\ [](server /= "running" => [](server /= "running"))
\* A controller was dropped and the loop ended with an accepted message it
\* never received.
C14_Witness ==
    /\ \E c \in Controllers : controllers[c] = "dropped"
    /\ signal = "fired"
    /\ server = "exited"
    /\ history.backlog = 0
    /\ history.accepted > Len(history.spawned)

\* C15: once the loop has ended and the receiver is gone, an operation
\* returns the closed-channel error at once: nothing is queued and the caller
\* waits on no reply channel.
C15_Step ==
    (Invoked /\ channel.rx_dropped)
    => /\ server = "exited"
       /\ channel' = channel
       /\ channel'.buffer = <<>>
       /\ history'.accepted = history.accepted
       /\ Invoker.pc = "idle"
       /\ Invoker.last.tag = "Err"
       /\ Invoker.last.value = Error("TrySendError::Closed")
       /\ NobodyStartsWaiting
C15_ClosedChannel == [][C15_Step]_vars
\* A Request was refused by the closed channel.
C15_Witness ==
    /\ server = "exited"
    /\ channel.rx_dropped
    /\ history.caller /= 0
    /\ callers[history.caller].pc = "idle"
    /\ callers[history.caller].last.op \in
           {"submit_txs", "fetch_txs", "plug_entry", "get_block_template"}
    /\ callers[history.caller].last.tag = "Err"
    /\ callers[history.caller].last.value = Error("TrySendError::Closed")

\* C16: messages are numbered in the order try_send accepted them.  The loop
\* receives them in that order, each once and none passed over, and spawns
\* the dispatch task of each as it receives it; so two messages of one
\* controller are received in the order it sent them.
C16_InOrder ==
    /\ \A j \in 1..Len(history.spawned) : history.spawned[j] = j
    /\ \A j \in 1..Len(channel.buffer) :
           channel.buffer[j].id = Len(history.spawned) + j
    /\ server /= "exited" =>
           Len(history.spawned) + Len(channel.buffer) = history.accepted
C16_Step ==
    history'.spawned /= history.spawned
    => /\ channel.buffer /= <<>>
       /\ history'.spawned = Append(history.spawned, Head(channel.buffer).id)
       /\ channel'.buffer = Tail(channel.buffer)
       /\ DOMAIN tasks' = DOMAIN tasks \cup {Head(channel.buffer).id}
       /\ tasks'[Head(channel.buffer).id].message = Head(channel.buffer)
C16_PerCallerFifo == []C16_InOrder /\ [][C16_Step]_vars
\* One controller sent three messages; the loop has received the first two,
\* the third waits in the channel.
C16_Witness ==
    /\ controllers[2] = "none"
    /\ history.backlog = 0
    /\ history.spawned = <<1, 2>>
    /\ Len(channel.buffer) = 1
    /\ channel.buffer[1].id = 3

\* A step in which the FetchTxs task i takes the read lock, and one in which
\* it replies.
FetchLocks(i) ==
    /\ i \in DOMAIN tasks /\ i \in DOMAIN tasks'
    /\ tasks[i].message.kind = "FetchTxs"
    /\ tasks[i].pc = "start" /\ tasks'[i].pc = "read"
FetchReplies(i) ==
    /\ i \in DOMAIN tasks
    /\ tasks[i].message.kind = "FetchTxs"
    /\ responders'[i] /= responders[i]
\* The ids FetchTxs task i asks for, and those among them whose submission
\* had succeeded before the fetch was sent.
Requested(i) ==
    {tasks[i].message.arguments[k] : k \in 1..Len(tasks[i].message.arguments)}
SubmittedBefore(i) == Requested(i) \cap history.fetches[i]
\* The ChainReorg messages that remove tx.
Removing(tx) == {r \in history.reorgs : tx \in r.attached}

\* The reply of FetchTxs holds the requested ids the pool held when the task
\* locked it; the others are dropped.
FetchReplyFromLockedPool ==
    \A i \in DOMAIN tasks : FetchReplies(i) =>
        /\ is_some(responders'[i])
        /\ unwrap(responders'[i]).txs =
               {tx \in Requested(i) : InPool(tasks[i].seen, tx)}
        /\ tasks[i].seen = service.tx_pool

\* C17 as stated: ... and a tx submitted before the fetch is missing from the
\* reply only if a ChainReorg dispatched before the fetch removes it.
C17_StepDispatchOrder ==
    /\ FetchReplyFromLockedPool
    /\ \A i \in DOMAIN tasks : FetchReplies(i) =>
           \A tx \in SubmittedBefore(i) \ unwrap(responders'[i]).txs :
               \E r \in Removing(tx) : r.id < i
C17_DispatchOrder == [][C17_StepDispatchOrder]_vars

\* C17, amended: ... and a tx submitted before the fetch is missing from the
\* reply only if a ChainReorg removed it before the fetch took the read lock,
\* whether that ChainReorg was dispatched before the fetch or after it.
C17_StepLockOrder ==
    /\ FetchReplyFromLockedPool
    /\ \A i \in DOMAIN tasks : FetchLocks(i) =>
           \A tx \in SubmittedBefore(i) :
               ~InPool(tasks'[i].seen, tx) =>
                   \E r \in Removing(tx) : r.id \in history.applied
C17_LockOrder == [][C17_StepLockOrder]_vars
\* A fetch sent after tx 1 was submitted has returned without it: a
\* ChainReorg sent after the fetch was applied first.
C17_Witness ==
    \E c \in Controllers :
        /\ callers[c].pc = "idle"
        /\ callers[c].last.op = "fetch_txs"
        /\ callers[c].last.tag = "Ok"
        /\ 1 \notin callers[c].last.value.txs
        /\ callers[c].id \in DOMAIN history.fetches
        /\ 1 \in history.fetches[callers[c].id]
        /\ \E r \in history.reorgs : r.id \in history.applied /\ r.id > callers[c].id

\* The entries of a PlugEntry message, as a set.
Entries(message) ==
    {message.arguments.entries[k] : k \in 1..Len(message.arguments.entries)}

\* C18: each insertion of a PlugEntry with target Pending leaves the proposed
\* set as it is, each with target Proposed the pending set; the reply is sent
\* when every entry has been attempted, and then the set named by the target
\* holds what it held plus the entries the pool did not hold, the other set
\* what it held when the task locked the pool.
C18_Step ==
    \A i \in DOMAIN tasks :
        (tasks[i].message.kind = "PlugEntry" /\ tasks[i].pc = "write")
        => LET before == tasks[i].seen
               pool == service'.tx_pool
               target == tasks[i].message.arguments.target
               fresh == Entries(tasks[i].message) \ (before.pending \cup before.proposed)
           IN  /\ target = Pending =>
                      /\ pool.proposed = service.tx_pool.proposed
                      /\ service.tx_pool.pending \subseteq pool.pending
                      /\ pool.pending \subseteq
                             service.tx_pool.pending \cup Entries(tasks[i].message)
               /\ target = Proposed =>
                      /\ pool.pending = service.tx_pool.pending
                      /\ service.tx_pool.proposed \subseteq pool.proposed
                      /\ pool.proposed \subseteq
                             service.tx_pool.proposed \cup Entries(tasks[i].message)
               /\ responders'[i] /= responders[i] =>
                      /\ tasks[i].entries = <<>>
                      /\ responders'[i] = Some(Unit)
                      /\ pool = service.tx_pool
                      /\ target = Pending =>
                             /\ pool.proposed = before.proposed
                             /\ pool.pending = before.pending \cup fresh
                      /\ target = Proposed =>
                             /\ pool.pending = before.pending
                             /\ pool.proposed = before.proposed \cup fresh
C18_PlugTarget == [][C18_Step]_vars
\* A plug_entry with target Proposed has returned: both entries are proposed,
\* none is pending.
C18_Witness ==
    /\ service.tx_pool = [pending |-> {}, proposed |-> {1, 2}]
    /\ \E c \in Controllers :
           /\ callers[c].pc = "idle"
           /\ callers[c].last.op = "plug_entry"
           /\ callers[c].last.tag = "Ok"

\* A step in which a NewUncle task stores last_uncles_updated_at.
UncleStores == \E i \in DOMAIN tasks : tasks[i].pc = "store" /\ i \notin DOMAIN tasks'

\* C19: each NewUncle handled with an assembler configured stores a
\* last_uncles_updated_at strictly greater than the value it replaces.
C19_Step ==
    UncleStores =>
        service'.last_uncles_updated_at > service.last_uncles_updated_at
C19_UnclesStrictlyIncreasing == [][C19_Step]_vars


(***************************************************************************)
(* The identify protocol, continued.                                       *)
(***************************************************************************)
\* C21: no expect("RemoteInfo must exists") fails: whenever received or
\* disconnected goes past its secio_enabled test for a session, the registry
\* holds the entry of that session, and no handler panics.
C21_Step ==
    (last'.op \in {"received", "disconnected"} /\ secio_enabled)
    => /\ last'.sid \in DOMAIN remote_infos
       /\ ~panicked'
C21_LookupsFind == [](~panicked) /\ [][C21_Step]_vars
\* Both sessions had a key; one is closed and removed, the other has just
\* gone through process_listens and process_observed.
C21_Witness ==
    \E s, x \in SessionIds :
        /\ phase[x] = "closed" /\ x \notin DOMAIN remote_infos
        /\ LastReceived(s)
        /\ Calls("process_listens") /= {}
        /\ Calls("process_observed") /= {}
        /\ s \in DOMAIN remote_infos
        /\ ~panicked

\* The effects that store something about a peer or open a protocol.
StoringOps ==
    {"identify_info", "open_protocols", "add_remote_listen_addrs",
     "listened_addrs", "add_addr", "add_observed_addr", "add_observed_addrs"}

\* C22: when the last handler asked to close session s after a Disconnect
\* answer, the next event of session s stores no listen_addrs and no
\* observed_addr, updates neither the peer record nor the address store and
\* opens no protocol.
C22_Step ==
    \A s \in SessionIds :
        (/\ DisconnectAsked(s)
         /\ s \in DOMAIN remote_infos
         /\ last'.op = "received" /\ last'.sid = s)
        => /\ s \in DOMAIN remote_infos'
           /\ remote_infos'[s].listen_addrs = remote_infos[s].listen_addrs
           /\ remote_infos'[s].observed_addr = remote_infos[s].observed_addr
           /\ \A i \in 1..Len(out') : out'[i].op \notin StoringOps
C22_DisconnectTerminal == [][C22_Step]_vars

\* The handler of this step left the instance as it was and did nothing.
Silent ==
    /\ remote_infos' = remote_infos
    /\ identify' = identify
    /\ out' = <<>>
    /\ ~panicked'

\* C23 as stated: once secio_enabled is false, no handler changes the
\* registry, calls a hook, sends, reports or asks for a disconnect, and
\* secio_enabled stays false.
C23_StepAllSilent ==
    ~secio_enabled => Silent /\ ~secio_enabled'
C23_AllSilenced == [][C23_StepAllSilent]_vars

\* C23, amended: once secio_enabled is false it stays false, and received,
\* notify and disconnected do nothing; connected is not silenced: for a
\* session with a key it inserts the RemoteInfo, calls the callback for the
\* local addresses and the identify payload and sends the message; for a
\* session without a key it asks for the disconnect and changes nothing.
C23_StepAmended ==
    ~secio_enabled =>
        /\ ~secio_enabled'
        /\ last'.op \in {"received", "notify", "disconnected"} => Silent
        /\ last'.op = "connected" =>
               LET s == last'.sid
               IN  IF sessions'[s] = "nokey"
                   THEN /\ remote_infos' = remote_infos
                        /\ out' = <<Eff("disconnect", s, 0)>>
                   ELSE /\ s \notin DOMAIN remote_infos
                        /\ s \in DOMAIN remote_infos'
                        /\ \A x \in DOMAIN remote_infos :
                               remote_infos'[x] = remote_infos[x]
                        /\ \E i \in 1..Len(out') :
                               out'[i].op = "quick_send_message" /\ out'[i].who = s
                        /\ \E i \in 1..Len(out') : out'[i].op = "local_listen_addrs"
                        /\ \E i \in 1..Len(out') : out'[i].op = "identify"
C23_SilencedButConnected == [][C23_StepAmended]_vars
\* A session with a key has connected after secio_enabled became false: it
\* has its RemoteInfo and was sent the message.
C23_Witness ==
    /\ ~secio_enabled
    /\ last.op = "connected"
    /\ sessions[last.sid] /= "nokey"
    /\ last.sid \in DOMAIN remote_infos
    /\ \E i \in Calls("quick_send_message") : out[i].who = last.sid

\* A well-formed message of a peer of the same network, with three listen
\* addresses.
GoodMessage == Message(<<P1, G1, D1>>, G2, LocalName, 1, "v2")

\* C24: an event of session s leaves the RemoteInfo of every other session
\* t as it is and asks for no disconnect of t; and whatever happened on other
\* sessions before, a well-formed message received on a session that awaits
\* it completes that session's handshake, and a tick reports Timeout for
\* every session that is overdue.
C24_Step ==
    /\ last'.op \in {"connected", "received", "disconnected"} =>
           \A t \in DOMAIN remote_infos \ {last'.sid} :
               /\ t \in DOMAIN remote_infos'
               /\ remote_infos'[t] = remote_infos[t]
               /\ \A i \in 1..Len(out') :
                      out'[i].op = "disconnect" => out'[i].who /= t
    /\ (last'.op = "received" /\ last'.data = GoodMessage) =>
           \A t \in DOMAIN remote_infos :
               (/\ t = last'.sid
                /\ is_none(remote_infos[t].listen_addrs)
                /\ is_none(remote_infos[t].observed_addr))
               => /\ t \in DOMAIN remote_infos'
                  /\ is_some(remote_infos'[t].listen_addrs)
                  /\ is_some(remote_infos'[t].observed_addr)
    /\ last'.op = "notify" =>
           \A t \in DOMAIN remote_infos :
               (/\ phase[t] = "open"
                /\ is_none(remote_infos[t].listen_addrs)
                /\ is_none(remote_infos[t].observed_addr)
                /\ remote_infos[t].connected_at + DEFAULT_TIMEOUT <= now')
               => \E i \in 1..Len(out') :
                      /\ out'[i].op = "misbehave"
                      /\ out'[i].who = remote_infos[t].peer_id
                      /\ out'[i].arg = Timeout
C24_SessionsIndependent == [][C24_Step]_vars
\* The same, as long as no session without a public key has connected.
C24_WhileSecioEnabled == [][secio_enabled' => C24_Step]_vars

\* C25: a tick changes no RemoteInfo, and it reports Timeout for the peer of
\* an entry if and only if the entry's listen_addrs or observed_addr is None
\* and the entry is at least DEFAULT_TIMEOUT seconds old; every report of a
\* tick is such a Timeout.
C25_Step ==
    last'.op = "notify" =>
        /\ remote_infos' = remote_infos
        /\ \A t \in DOMAIN remote_infos :
               LET info == remote_infos[t]
                   due == /\ is_none(info.listen_addrs) \/ is_none(info.observed_addr)
                          /\ info.connected_at + DEFAULT_TIMEOUT <= now'
                   reports == {i \in 1..Len(out') :
                                  /\ out'[i].op = "misbehave"
                                  /\ out'[i].who = info.peer_id}
               IN  /\ due => Cardinality(reports) = 1
                   /\ ~due => reports = {}
                   /\ \A i \in reports : out'[i].arg = Timeout
        /\ \A i \in 1..Len(out') :
               out'[i].op = "misbehave" =>
                   \E t \in DOMAIN remote_infos : out'[i].who = remote_infos[t].peer_id
C25_TimeoutExactly == [][C25_Step]_vars
\* The same, as long as no session without a public key has connected.
C25_WhileSecioEnabled == [][secio_enabled => C25_Step]_vars

\* C26: when received is handed data that does not decode, it reports
\* InvalidData for the session's peer exactly once and nothing else, invokes
\* none of received_identify, add_remote_listen_addrs and add_observed_addr,
\* leaves every RemoteInfo as it was, and asks for the session's disconnect
\* exactly when the callback's policy answers Disconnect.
C26_Step ==
    (/\ last'.op = "received"
     /\ secio_enabled
     /\ is_none(IdentifyMessage_decode(last'.data)))
    => /\ last'.sid \in DOMAIN remote_infos
       /\ ~panicked'
       /\ remote_infos' = remote_infos
       /\ Cardinality({i \in 1..Len(out') : out'[i].op = "misbehave"}) = 1
       /\ \A i \in 1..Len(out') :
              /\ out'[i].op \in {"misbehave", "disconnect"}
              /\ out'[i].op = "misbehave" =>
                     /\ out'[i].who = remote_infos[last'.sid].peer_id
                     /\ out'[i].arg = InvalidData
              /\ out'[i].op = "disconnect" => out'[i].who = last'.sid
       /\ Cardinality({i \in 1..Len(out') : out'[i].op = "disconnect"})
              = IF policy = Disconnect THEN 1 ELSE 0
C26_InvalidData == [][C26_Step]_vars

C26_Witness ==
    \E s \in DOMAIN remote_infos :
        /\ LastReceived(s)
        /\ last.data = Junk
        /\ is_some(remote_infos[s].listen_addrs)
        /\ Reported(s, "InvalidData")
        /\ DisconnectAsked(s)
        /\ policy = Disconnect

\* C28: when misbehave answers Disconnect (and add_observed_addr Continue, as
\* IdentifyCallback does), every RemoteInfo has listen_addrs Some exactly
\* when it has observed_addr Some; a message that reaches the duplicate
\* check of a session whose listen_addrs is Some is reported as
\* DuplicateListenAddrs, process_observed is not entered for it, and
\* DuplicateObservedAddr is never reported.
C28_Paired ==
    \A s \in DOMAIN remote_infos :
        is_some(remote_infos[s].listen_addrs) <=> is_some(remote_infos[s].observed_addr)
C28_StepRepeated ==
    \A s \in DOMAIN remote_infos :
        (/\ last'.op = "received" /\ last'.sid = s
         /\ is_some(remote_infos[s].listen_addrs)
         /\ \/ \E i \in 1..Len(out') : out'[i].op = "process_listens"
            \/ secio_enabled /\ last'.data = GoodMessage)
        => /\ \E i \in 1..Len(out') :
                  /\ out'[i].op = "misbehave"
                  /\ out'[i].who = remote_infos[s].peer_id
                  /\ out'[i].arg = DuplicateListenAddrs
           /\ \A i \in 1..Len(out') : out'[i].op /= "process_observed"
           /\ remote_infos' = remote_infos
C28_StepNeverObserved ==
    \A i \in 1..Len(out') :
        out'[i].op = "misbehave" => out'[i].arg /= DuplicateObservedAddr
C28_ListenIffObserved ==
    /\ [](policy = Disconnect => C28_Paired)
    /\ [][policy = Disconnect => C28_StepRepeated /\ C28_StepNeverObserved]_vars
\* The pairing without the premise on misbehave's answer.
C28_PairedUnderAnyPolicy == [](C28_Paired)

C28_Witness ==
    \E s \in DOMAIN remote_infos :
        /\ policy = Disconnect
        /\ LastReceived(s)
        /\ is_some(remote_infos[s].listen_addrs)
        /\ is_some(remote_infos[s].observed_addr)
        /\ Reported(s, "DuplicateListenAddrs")
        /\ DisconnectAsked(s)

\* C29: received_identify is the first thing received does with a message
\* that decodes, before process_listens is entered.  So a valid message on
\* an outbound, non-feeler session whose listen_addrs is already Some has
\* its client_version recorded and open_protocols invoked once more, and
\* only then is DuplicateListenAddrs reported and, when the policy answers
\* Disconnect, the session's disconnect requested.
C29_StepFirst ==
    (/\ last'.op = "received"
     /\ secio_enabled
     /\ is_some(IdentifyMessage_decode(last'.data)))
    => /\ Len(out') >= 1
       /\ out'[1] = Eff("received_identify", last'.sid, last'.data.identify)
       /\ \A i \in 1..Len(out') :
              out'[i].op \in {"process_listens", "misbehave"} => i > 1
C29_StepAgain ==
    \A s \in DOMAIN remote_infos :
        (/\ last'.op = "received" /\ last'.sid = s
         /\ secio_enabled
         /\ sessions[s] = "outbound"
         /\ is_some(remote_infos[s].listen_addrs)
         /\ last'.data = GoodMessage)
        => \E i, j, k \in 1..Len(out') :
               /\ i < j /\ j < k
               /\ out'[i] = Eff("identify_info", s, "v2")
               /\ out'[j].op = "open_protocols" /\ out'[j].who = s
               /\ out'[j].arg /= {}
               /\ out'[k].op = "misbehave"
               /\ out'[k].who = remote_infos[s].peer_id
               /\ out'[k].arg = DuplicateListenAddrs
               /\ policy = Disconnect =>
                      /\ out'[Len(out')] = Eff("disconnect", s, 0)
                      /\ k < Len(out')
C29_IdentifyBeforeDuplicate == [][C29_StepFirst /\ C29_StepAgain]_vars

C29_Witness ==
    \E s \in DOMAIN remote_infos :
        /\ sessions[s] = "outbound"
        /\ LastReceived(s)
        /\ last.data = GoodMessage
        /\ \E i \in Calls("identify_info") : out[i].who = s
        /\ \E i \in Calls("open_protocols") : out[i].who = s
        /\ Reported(s, "DuplicateListenAddrs")
        /\ DisconnectAsked(s)

(***************************************************************************)
(* The tx-pool service, continued.                                         *)
(***************************************************************************)
\* The requests the loop has dispatched.
Dispatched == {history.spawned[k] : k \in 1..Len(history.spawned)}
\* Dispatch task i ends in this step; it ends unpolled when the runtime
\* drops it at shutdown.
Ends(i) == i \in DOMAIN tasks /\ i \notin DOMAIN tasks'
DroppedAtShutdown(i) ==
    /\ Ends(i)
    /\ server = "exited"
    /\ tasks[i].pc \in {"start", "verified"}
    /\ responders' = responders
\* The thread blocked on controller c returns in this step.
Returns(c) == callers[c].pc = "recv" /\ callers'[c].pc = "idle"

\* A reply channel gets its single reply from the task of its own request
\* and from nothing else, a Notify's handler sends none, and a Notify
\* operation returns as soon as its message is queued.
C27_StepChannels ==
    /\ \A id \in DOMAIN responders' :
           IF id \notin DOMAIN responders
           THEN /\ Invoked /\ Invoker = Blocked(Invoker.last.op, id, callers[history'.caller].last)
                /\ is_none(responders'[id])
           ELSE responders'[id] /= responders[id]
                => /\ is_none(responders[id]) /\ is_some(responders'[id])
                   /\ Ends(id)
                   /\ tasks[id].message.kind \in RequestKinds
                   /\ tasks[id].message.id = id
    /\ DOMAIN responders \subseteq DOMAIN responders'
    /\ \A i \in DOMAIN tasks :
           tasks[i].message.kind \in NotifyKinds => i \notin DOMAIN responders'
    /\ \A o \in Operations :
           (Invoked /\ Invoker.last.op = o.op /\ o.kind \in NotifyKinds)
           => /\ Invoker.pc = "idle"
              /\ NobodyStartsWaiting
              /\ history'.accepted > history.accepted
                     => Invoker.last = Returned(o.op, "Ok", Unit)
\* As the claim has it: the handler of a dispatched Request ends with its
\* reply sent, and the thread that waits for it returns with that reply.
C27_StepReplied ==
    /\ \A i \in DOMAIN tasks :
           (Ends(i) /\ tasks[i].message.kind \in RequestKinds)
           => is_some(responders'[i])
    /\ \A c \in Controllers :
           (Returns(c) /\ callers[c].id \in Dispatched)
           => /\ is_some(responders[callers[c].id])
              /\ callers'[c].last =
                     Returned(callers[c].last.op, "Ok", unwrap(responders[callers[c].id]))
C27_StepAnswered ==
    /\ \A i \in DOMAIN tasks :
           (Ends(i) /\ tasks[i].message.kind \in RequestKinds)
           => is_some(responders'[i]) \/ DroppedAtShutdown(i)
    /\ \A c \in Controllers :
           Returns(c)
           => LET id == callers[c].id
              IN  IF is_some(responders[id])
                  THEN callers'[c].last =
                           Returned(callers[c].last.op, "Ok", unwrap(responders[id]))
                  ELSE /\ callers'[c].last =
                              Returned(callers[c].last.op, "Err", Error("RecvError"))
                       /\ server = "exited"
                       /\ id \notin DOMAIN tasks
C30_StepDrop ==
    /\ \A c \in Controllers :
           (controllers[c] = "alive" /\ controllers'[c] = "dropped")
           => signal' = "fired"
    /\ signal = "fired" => signal' = "fired"
    /\ \A c \in Controllers :
           (controllers[c] = "none" /\ controllers'[c] = "alive")
           => /\ \E d \in Controllers \ {c} : controllers[d] = "alive"
              /\ signal' = signal /\ channel' = channel
C30_StepAfterExit ==
    (Invoked /\ server = "exited")
    => /\ controllers[history'.caller] = "alive"
       /\ Invoker.pc = "idle"
       /\ Invoker.last.tag = "Err"
       /\ Invoker.last.value = Error("TrySendError::Closed")
       /\ channel'.buffer = <<>>
       /\ responders' = responders
       /\ tasks' = tasks
====
